---- MODULE Spec2Model ----
(***************************************************************************)
(* A model of drow, a user-space dynamic loader for AMD64 ELF executables. *)
(*                                                                         *)
(*   - header validation        (elf.rs,    Elf64Metadata::check_header)   *)
(*   - dependency resolution    (loader.rs, DependenciesResolver)          *)
(*   - loading and relocation   (loader.rs, Elf64Loader)                   *)
(*   - execution                (loader.rs, Elf64Loader::execute, handle)  *)
(*                                                                         *)
(* Each part has its own specification over the shared variables; the      *)
(* variables of the other parts keep their initial values there.           *)
(***************************************************************************)
EXTENDS Integers, Sequences, FiniteSets, TLC

VARIABLES
    \* ---- header validation ----
    header,          \* the Elf64Header read from the file: e_ident bytes and e_machine
    check_result,    \* what check_header returned: "none" before the call, "ok", or an error
    \* ---- dependency resolution ----
    needed,          \* file path -> dynamic.required_libraries of the image at that path
    queue,           \* resolve_in_loading_order: the work deque
    libraries,       \* resolve_in_loading_order: the intermediate deque
    rpc,             \* position in resolve_in_loading_order
    result,          \* the list resolve_in_loading_order returned
    library_cache,   \* DependenciesResolver.library_cache: library name -> path
    ld_path_loader,  \* DependenciesResolver.ld_path_loader
    located,         \* what the last resolve_direct_dependencies call did and returned
    \* ---- Elf64Loader ----
    base_address,            \* Elf64Loader.base_address
    entry,                   \* Elf64Loader.entry
    mapped_memory,           \* Elf64Loader.mapped_memory: the handles, in push order
    global_symbols,          \* Elf64Loader.global_symbols: name -> entry
    default_global_symbols,  \* Elf64Loader.default_global_symbols: name -> entry
    init_functions,          \* Elf64Loader.init_functions
    \* ---- a load in progress: the locals of load and load_program_header ----
    lpc,             \* position of the loader
    cur,             \* the image being loaded (elf_metadata)
    offset,          \* the local `offset`: base_address when the load began
    last_address,    \* the local `last_address`
    todo_ph,         \* the program headers of program_info not yet mapped
    todo_rel,        \* the relocations not yet applied
    fd,              \* the open object descriptors
    \* ---- the process ----
    mem,             \* address -> the 64-bit word the loader wrote there
    munmaps,         \* the munmap calls made by dropped handles, in order
    xpc,             \* position of execute and of the child it spawned
    args,            \* the HandlerArguments handed to the child
    invoked,         \* the calls the child made, in order
    stack,           \* execute: the ProgramStack it holds
    children,        \* the children clone has created
    \* ---- history ----
    pool,            \* which images the files are drawn from
    loaded,          \* the files `load` went through: image, base, what was mapped
    last_reloc,      \* the relocation of the current image applied last
    \* ---- one call of a function without state ----
    call,            \* the function called and its arguments
    returned         \* what the call returned

headerVars   == <<header, check_result>>
resolverVars == <<needed, queue, libraries, rpc, result, library_cache,
                  ld_path_loader, located>>
loaderVars   == <<base_address, entry, mapped_memory, global_symbols,
                  default_global_symbols, init_functions, lpc, cur, offset,
                  last_address, todo_ph, todo_rel, fd, mem, munmaps, xpc, args,
                  invoked, pool, loaded, last_reloc, stack, children>>
pureVars     == <<call, returned>>
vars == <<header, check_result, needed, queue, libraries, rpc, result,
          library_cache, ld_path_loader, located,
          base_address, entry, mapped_memory, global_symbols,
          default_global_symbols, init_functions, lpc, cur, offset,
          last_address, todo_ph, todo_rel, fd, mem, munmaps, xpc, args,
          invoked, pool, loaded, last_reloc, stack, children, call, returned>>

(***************************************************************************)
(* Generic helpers on sequences.                                           *)
(***************************************************************************)
Range(s) == {s[i] : i \in DOMAIN s}

Reverse(s) == [i \in 1..Len(s) |-> s[Len(s) + 1 - i]]

RECURSIVE Flatten(_)
Flatten(ss) == IF ss = <<>> THEN <<>> ELSE Head(ss) \o Flatten(Tail(ss))

\* The positions of x in s.
Positions(s, x) == {i \in DOMAIN s : s[i] = x}

\* No call of a function without state is under way.
NoCall == [op |-> "none"]
PureIdle == call = NoCall /\ returned = NoCall

\* Option<T>
None == [found |-> FALSE]
Some(x) == [found |-> TRUE, value |-> x]

(***************************************************************************)
(* Header validation: elf.rs, Elf64Metadata::check_header.                  *)
(* e_ident is 0-based in the source; e_ident[k] is header.e_ident[k + 1].   *)
(***************************************************************************)
ELFMAG0 == 127
ELFMAG1 == 69
ELFMAG2 == 76
ELFMAG3 == 70
ELFCLASS64 == 2
ELFDATA2LSB == 1
EM_X86_64 == 62

Ident(h, k) == h.e_ident[k + 1]

check_file_ident(h) ==
    IF /\ Ident(h, 0) = ELFMAG0
       /\ Ident(h, 1) = ELFMAG1
       /\ Ident(h, 2) = ELFMAG2
       /\ Ident(h, 3) = ELFMAG3
    THEN "ok" ELSE "Not an ELF file"

check_class(h) ==
    IF Ident(h, 4) = ELFCLASS64 THEN "ok" ELSE "ELF64 required"

\* The source reads e_ident[4..5], the class byte, and compares it with 2.
check_endian(h) ==
    IF Ident(h, 4) = 2 THEN "ok" ELSE "Little Endian required"

check_machine(h) ==
    IF h.e_machine = EM_X86_64 THEN "ok" ELSE "AMD64 expected"

\* check_header with the machine checked before the class.
check_header_machine_first(h) ==
    IF check_file_ident(h) # "ok" THEN check_file_ident(h)
    ELSE IF check_machine(h) # "ok" THEN check_machine(h)
    ELSE IF check_class(h) # "ok" THEN check_class(h)
    ELSE check_endian(h)

\* The ? operator: the first error is returned, later checks do not run.
check_header(h) ==
    IF check_file_ident(h) # "ok" THEN check_file_ident(h)
    ELSE IF check_class(h) # "ok" THEN check_class(h)
    ELSE IF check_endian(h) # "ok" THEN check_endian(h)
    ELSE check_machine(h)

\* The header bytes the model draws from: the right value and wrong ones.
MagicBytes(right) == {right, 0}
ClassBytes == {0, 1, 2}
DataBytes == {0, 1, 2}
Machines == {EM_X86_64, 3, 40}

Headers ==
    { [e_ident |-> <<m0, m1, m2, m3, c, d>>, e_machine |-> m] :
        m0 \in MagicBytes(ELFMAG0), m1 \in MagicBytes(ELFMAG1),
        m2 \in MagicBytes(ELFMAG2), m3 \in MagicBytes(ELFMAG3),
        c \in ClassBytes, d \in DataBytes, m \in Machines }

HeaderIdle ==
    /\ header = [e_ident |-> <<0, 0, 0, 0, 0, 0>>, e_machine |-> 0]
    /\ check_result = "none"

\* Elf64Metadata::load, up to the header check.
CheckHeader ==
    /\ check_result = "none"
    /\ check_result' = check_header(header)
    /\ UNCHANGED header

(***************************************************************************)
(* Dependency resolution: loader.rs, DependenciesResolver.                  *)
(* An image is identified by its file path; needed[p] is the                *)
(* required_libraries list of the image parsed from path p.                 *)
(***************************************************************************)
Libs == {"a", "b", "c", "d"}

\* The library cache: every library name is bound to one absolute path.
CachePath == ("a" :> "/bin/a") @@ ("b" :> "/lib/b.so") @@
             ("c" :> "/lib/c.so") @@ ("d" :> "/lib/d.so")

Paths == {CachePath[n] : n \in Libs}

Root == "/bin/a"

\* The number of DT_NEEDED entries in all the images together.
MaxNeeded == 5

\* The capacity of the intermediate deque: the resolver's memory.
MaxLibraries == 12

RECURSIVE SumLen(_, _)
SumLen(f, S) ==
    IF S = {} THEN 0
    ELSE LET p == CHOOSE x \in S : TRUE IN Len(f[p]) + SumLen(f, S \ {p})

(***************************************************************************)
(* The disk, as the resolver sees it.                                       *)
(***************************************************************************)
\* read_dir: the entries of the directories that can be read, in the order
\* read_dir yields them.  A directory that is not listed cannot be read.
Directories ==
    ("/opt/lib" :> <<"/opt/lib/libb.so", "/opt/lib/notes.txt">>) @@
    ("/usr/local/lib" :> <<"/usr/local/lib/libc.so">>) @@
    ("/srv/lib" :> <<"/srv/lib/b", "/srv/lib/c">>) @@
    ("/empty" :> <<>>)

\* The files Elf64Metadata::load accepts, and the files it rejects.  A path
\* in neither set cannot be opened.
ElfFiles == Paths \cup {"/opt/lib/libb.so", "/usr/local/lib/libc.so",
                         "/srv/lib/b", "/srv/lib/c"}
OtherFiles == {"/opt/lib/notes.txt"}

IsElf(path) == path \in ElfFiles

\* ld_path_loader: None.
NoLoader == [present |-> FALSE]

\* LdPathLoader::new on a value that split(":") cuts into `segments`.
LdPathLoaderNew(segments) ==
    [present |-> TRUE,
     paths |-> SelectSeq(segments, LAMBDA segment : segment # ""),
     libraries |-> <<>>]

\* LdPathLoader::get: the memoized path, else the entry read last from the
\* directories, which is memoized under key.
LdPathLoaderGet(loader, key) ==
    IF key \in DOMAIN loader.libraries
    THEN [result |-> Some(loader.libraries[key]), loader |-> loader, panics |-> FALSE]
    ELSE IF \E i \in DOMAIN loader.paths : loader.paths[i] \notin DOMAIN Directories
    THEN [result |-> None, loader |-> loader, panics |-> TRUE]
    ELSE LET files == Flatten([i \in DOMAIN loader.paths |-> Directories[loader.paths[i]]])
         IN IF files = <<>>
            THEN [result |-> None, loader |-> loader, panics |-> FALSE]
            ELSE [result |-> Some(files[Len(files)]),
                  loader |-> [loader EXCEPT !.libraries = @ @@ (key :> files[Len(files)])],
                  panics |-> FALSE]

\* A resolve_path that asks the search-path loader before the cache.
resolve_path_search_first(c, ld, library) ==
    LET r == IF ld.present THEN LdPathLoaderGet(ld, library)
             ELSE [result |-> None, loader |-> ld, panics |-> FALSE]
    IN [paths |-> IF r.result.found THEN <<r.result.value>>
                  ELSE IF library \in DOMAIN c THEN <<c[library]>> ELSE <<>>,
        loader |-> r.loader, consulted |-> ld.present, panics |-> r.panics]

\* resolve_path: the cache's answer for a library name, else the search-path
\* loader's.  consulted says whether LdPathLoader::get was called.
resolve_path(c, ld, library) ==
    IF library \in DOMAIN c
    THEN [paths |-> <<c[library]>>, loader |-> ld, consulted |-> FALSE, panics |-> FALSE]
    ELSE IF ~ld.present
    THEN [paths |-> <<>>, loader |-> ld, consulted |-> FALSE, panics |-> FALSE]
    ELSE LET r == LdPathLoaderGet(ld, library)
         IN [paths |-> IF r.result.found THEN <<r.result.value>> ELSE <<>>,
             loader |-> r.loader, consulted |-> TRUE, panics |-> r.panics]

\* A loop over the needed names that ends at the first name not located.
RECURSIVE DirectDependencies_until_missing(_, _, _)
DirectDependencies_until_missing(names, c, ld) ==
    IF names = <<>>
    THEN [images |-> <<>>, loader |-> ld, log |-> <<>>, panics |-> FALSE]
    ELSE LET r == resolve_path(c, ld, Head(names))
             rest == IF r.paths = <<>>
                     THEN [images |-> <<>>, loader |-> r.loader, log |-> <<>>, panics |-> FALSE]
                     ELSE DirectDependencies_until_missing(Tail(names), c, r.loader)
         IN [images |-> SelectSeq(r.paths, IsElf) \o rest.images,
             loader |-> rest.loader,
             log |-> <<[library |-> Head(names), paths |-> r.paths,
                        consulted |-> r.consulted]>> \o rest.log,
             panics |-> r.panics \/ rest.panics
                          \/ \E i \in DOMAIN r.paths : r.paths[i] \notin ElfFiles \cup OtherFiles]

\* The loop of resolve_direct_dependencies over the needed names: the images
\* it pushes, the loader it leaves, what each resolve_path answered, and
\* whether an expect or unwrap panicked on the way.  Each call's result is bound
\* once, as the only element of a set.
RECURSIVE DirectDependencies(_, _, _)
DirectDependencies(names, c, ld) ==
    IF names = <<>>
    THEN [images |-> <<>>, loader |-> ld, log |-> <<>>, panics |-> FALSE]
    ELSE CHOOSE out \in
           {IF r.panics \/ \E i \in DOMAIN r.paths : r.paths[i] \notin ElfFiles \cup OtherFiles
            THEN [images |-> <<>>, loader |-> r.loader, log |-> <<>>, panics |-> TRUE]
            ELSE CHOOSE pushed \in
                   {[images |-> SelectSeq(r.paths, IsElf) \o rest.images,
                     loader |-> rest.loader,
                     log |-> <<[library |-> Head(names), paths |-> r.paths,
                                consulted |-> r.consulted]>> \o rest.log,
                     panics |-> rest.panics] :
                       rest \in {DirectDependencies(Tail(names), c, r.loader)}} : TRUE :
              r \in {resolve_path(c, ld, Head(names))}} : TRUE

\* resolve_direct_dependencies: the images of the located paths, in needed order.
resolve_direct_dependencies(path) ==
    DirectDependencies(needed[path], library_cache, ld_path_loader).images

\* add_front: every entry of vector is pushed to the front, in vector order.
add_front(q, vector) == Reverse(vector) \o q

\* A final loop that keeps the last occurrence of each path.
RECURSIVE DeduplicateKeepLast(_, _)
DeduplicateKeepLast(s, seen) ==
    IF s = <<>> THEN <<>>
    ELSE IF Head(s) \in Range(Tail(s)) THEN DeduplicateKeepLast(Tail(s), seen)
    ELSE <<Head(s)>> \o DeduplicateKeepLast(Tail(s), seen)

\* The final loop of resolve_in_loading_order: keep the first occurrence of each path.
RECURSIVE Deduplicate(_, _)
Deduplicate(s, seen) ==
    IF s = <<>> THEN <<>>
    ELSE IF Head(s) \in seen THEN Deduplicate(Tail(s), seen)
    ELSE <<Head(s)>> \o Deduplicate(Tail(s), seen \cup {Head(s)})

ResolverIdle ==
    /\ needed = [p \in Paths |-> <<>>]
    /\ queue = <<>>
    /\ libraries = <<>>
    /\ rpc = "idle"
    /\ result = <<>>
    /\ library_cache = CachePath
    /\ ld_path_loader = NoLoader
    /\ located = [log |-> <<>>, images |-> <<>>]

\* The images on disk: one more DT_NEEDED entry of the image at path p, which
\* Elf64Dynamic::load_dynamic_section appends to required_libraries.
LinkNeeded(p, library) ==
    /\ rpc = "link"
    /\ SumLen(needed, Paths) < MaxNeeded
    /\ needed' = [needed EXCEPT ![p] = Append(@, library)]
    /\ UNCHANGED <<queue, libraries, rpc, result, library_cache, ld_path_loader, located>>

\* resolve_in_loading_order, lines 138-142: up to the loop.
ResolveStart ==
    /\ rpc = "link"
    /\ libraries' = <<Root>>
    /\ \E r \in {DirectDependencies(needed[Root], library_cache, ld_path_loader)} :
          /\ ~r.panics
          /\ queue' = add_front(<<>>, r.images)
          /\ ld_path_loader' = r.loader
    /\ rpc' = "loop"
    /\ UNCHANGED <<needed, result, library_cache, located>>

\* One iteration of the while loop, lines 143-147.
ResolvePop ==
    /\ rpc = "loop"
    /\ queue # <<>>
    /\ Len(libraries) < MaxLibraries
    /\ libraries' = <<Head(queue)>> \o libraries
    /\ \E r \in {DirectDependencies(needed[Head(queue)], library_cache, ld_path_loader)} :
          /\ ~r.panics
          /\ queue' = add_front(Tail(queue), r.images)
          /\ ld_path_loader' = r.loader
    /\ UNCHANGED <<needed, rpc, result, library_cache, located>>

\* The deque cannot grow any more: the allocation fails and the process aborts.
ResolveExhausted ==
    /\ rpc = "loop"
    /\ queue # <<>>
    /\ Len(libraries) >= MaxLibraries
    /\ rpc' = "exhausted"
    /\ UNCHANGED <<needed, queue, libraries, result, library_cache, ld_path_loader, located>>

\* The queue is empty: lines 148-156, deduplicate and return.
ResolveReturn ==
    /\ rpc = "loop"
    /\ queue = <<>>
    /\ result' = Deduplicate(libraries, {})
    /\ rpc' = "done"
    /\ UNCHANGED <<needed, queue, libraries, library_cache, ld_path_loader, located>>

\* One call of resolve_direct_dependencies on the image at Root.
ResolveDirect ==
    /\ rpc = "locate"
    /\ \E r \in {DirectDependencies(needed[Root], library_cache, ld_path_loader)} :
          /\ ~r.panics
          /\ located' = [log |-> r.log, images |-> r.images]
          /\ ld_path_loader' = r.loader
    /\ rpc' = "located"
    /\ UNCHANGED <<needed, queue, libraries, result, library_cache>>

\* The call panics: a directory of the search path cannot be read, or a
\* located path cannot be opened.
ResolveDirectPanics ==
    /\ rpc = "locate"
    /\ DirectDependencies(needed[Root], library_cache, ld_path_loader).panics
    /\ rpc' = "panicked"
    /\ UNCHANGED <<needed, queue, libraries, result, library_cache, ld_path_loader, located>>

\* The dependency graph: p depends on q.
DependsOn(p, q) == q \in Range(resolve_direct_dependencies(p))

\* The paths reachable from p in at least one step.
RECURSIVE ReachFrom(_, _)
ReachFrom(S, n) ==
    IF n = 0 THEN S
    ELSE ReachFrom(S \cup {q \in Paths : \E p \in S : DependsOn(p, q)}, n - 1)

Reachable(p) == ReachFrom({q \in Paths : DependsOn(p, q)}, Cardinality(Paths))

\* No image reachable from the root, and not the root itself, depends on itself.
Acyclic == \A p \in Reachable(Root) \cup {Root} : p \notin Reachable(p)

IndexOf(s, x) == CHOOSE i \in DOMAIN s : s[i] = x

(***************************************************************************)
(* 64-bit words.  A word is four 16-bit limbs, least significant first, so  *)
(* that sums keep the width of the source's u64 and i64 arithmetic.         *)
(***************************************************************************)
Limb == 65536

\* The word of a natural number below 2^31.
W64(n) == <<n % Limb, (n \div Limb) % Limb, 0, 0>>

\* x + y modulo 2^64.
Add64(x, y) ==
    LET s1 == x[1] + y[1]
        s2 == x[2] + y[2] + (s1 \div Limb)
        s3 == x[3] + y[3] + (s2 \div Limb)
        s4 == x[4] + y[4] + (s3 \div Limb)
    IN <<s1 % Limb, s2 % Limb, s3 % Limb, s4 % Limb>>

\* `i as i64` for an i32 i, as a two's-complement word.
SignExtend32(i) ==
    <<i % Limb, (i \div Limb) % Limb,
      IF i < 0 THEN Limb - 1 ELSE 0, IF i < 0 THEN Limb - 1 ELSE 0>>

\* Elf64RelocationAddend.addend is an i32 that read_unaligned fills from the
\* first four bytes of the entry's eight-byte r_addend field.
AddendI32(r_addend) ==
    IF r_addend[2] < Limb \div 2
    THEN r_addend[1] + Limb * r_addend[2]
    ELSE r_addend[1] + Limb * (r_addend[2] - Limb)

(***************************************************************************)
(* Names.  A name is a sequence of tokens; "@" and the terminator NUL are   *)
(* tokens of their own, so that split and trim_matches act as in the source.*)
(***************************************************************************)
NUL == "\\0"

Min(S) == CHOOSE x \in S : \A y \in S : x <= y

Occurrences(s, pat) ==
    {i \in 1..(Len(s) - Len(pat) + 1) : SubSeq(s, i, i + Len(pat) - 1) = pat}

\* str::contains
Contains(s, pat) == Occurrences(s, pat) # {}

\* s.split(pat).collect()[0]: what precedes the first occurrence of pat.
SplitFirst(s, pat) ==
    IF Contains(s, pat) THEN SubSeq(s, 1, Min(Occurrences(s, pat)) - 1) ELSE s

\* trim_matches('\0')
RECURSIVE TrimNul(_)
TrimNul(s) ==
    IF s = <<>> THEN s
    ELSE IF Head(s) = NUL THEN TrimNul(Tail(s))
    ELSE IF s[Len(s)] = NUL THEN TrimNul(SubSeq(s, 1, Len(s) - 1))
    ELSE s

\* &s[from..to], with from and to counted from 0 as in the source.
Slice(s, from, to) == SubSeq(s, from + 1, to)

\* The loop of string_length from `index` on: indexing past the end panics.
RECURSIVE StringLengthFrom(_, _)
StringLengthFrom(string, index) ==
    IF index + 1 \notin DOMAIN string THEN [panics |-> TRUE]
    ELSE IF string[index + 1] # NUL THEN StringLengthFrom(string, index + 1)
    ELSE [panics |-> FALSE, value |-> index + 1]

string_length(string) == StringLengthFrom(string, 0)

\* load_dynamic_section: the name of the needed library whose DT_NEEDED
\* value is `from`.
required_library(string_table, from) ==
    IF from > Len(string_table) THEN [panics |-> TRUE]
    ELSE LET len == string_length(Slice(string_table, from, Len(string_table)))
         IN IF len.panics THEN [panics |-> TRUE]
            ELSE [panics |-> FALSE,
                  value |-> Slice(string_table, from, from + len.value - 1)]

\* load_symbol_table: the name of the symbol whose st_name is `from`.
symbol_name(string_table, from) ==
    IF from > Len(string_table) THEN [panics |-> TRUE]
    ELSE LET len == string_length(Slice(string_table, from, Len(string_table)))
         IN IF len.panics THEN [panics |-> TRUE]
            ELSE [panics |-> FALSE,
                  value |-> Slice(string_table, from, from + len.value)]

\* One call on a string table: string_length on the table from `from` on, or
\* the materialisation of the name at `from`.
Materialise ==
    /\ call.op \in {"string_length", "required_library", "symbol_name"}
    /\ returned = NoCall
    /\ returned' =
          IF call.op = "required_library" THEN required_library(call.table, call.from)
          ELSE IF call.op = "symbol_name" THEN symbol_name(call.table, call.from)
          ELSE IF call.from > Len(call.table) THEN [panics |-> TRUE]
          ELSE string_length(Slice(call.table, call.from, Len(call.table)))
    /\ UNCHANGED call

\* load_symbol_table: the name runs from st_name through the terminator,
\* since `to` is `from + string_length(..)` and string_length counts it.
SymbolName(chars) == chars \o <<NUL>>

(***************************************************************************)
(* The library cache: cache.rs, LibraryCache.  A file is its bytes; offsets *)
(* are counted from 0 as in the source.                                     *)
(***************************************************************************)
\* "glibc-ld.so.cache" and "1.1", as bytes.
CACHE_MAGIC_NEW ==
    <<103, 108, 105, 98, 99, 45, 108, 100, 46, 115, 111, 46, 99, 97, 99, 104, 101>>
CACHE_VERSION == <<49, 46, 49>>

\* size_of::<u32>() and size_of::<CacheEntry>().
SizeOfU32 == 4
SizeOfCacheEntry == 24

\* The byte of the mapped file at an offset; the rest of the last page of a
\* mapping is zero.
ByteAt(file, at) == IF at + 1 \in DOMAIN file THEN file[at + 1] ELSE 0

\* ptr::read_unaligned of a u32: four bytes, the lowest first.
ReadU32(file, at) ==
    ByteAt(file, at) + 256 * ByteAt(file, at + 1)
        + 65536 * ByteAt(file, at + 2) + 16777216 * ByteAt(file, at + 3)

\* pointer_to_string: the bytes from an offset up to the first zero byte.
RECURSIVE pointer_to_string(_, _)
pointer_to_string(file, at) ==
    IF ByteAt(file, at) = 0 THEN <<>>
    ELSE <<ByteAt(file, at)>> \o pointer_to_string(file, at + 1)

\* The loop of lines 119-125: insert replaces the value a key has.
RECURSIVE InsertEntries(_, _, _)
InsertEntries(cache, file, cache_entries) ==
    IF cache_entries = <<>> THEN cache
    ELSE LET key == pointer_to_string(file, Head(cache_entries).key)
             value == pointer_to_string(file, Head(cache_entries).value)
         IN InsertEntries([k \in (DOMAIN cache) \cup {key} |->
                              IF k = key THEN value ELSE cache[k]],
                          file, Tail(cache_entries))

\* A load that takes six more words of header after the string-table size.
LibraryCacheLoad_longer_header(file) ==
    LET number_of_entries == ReadU32(file, Len(CACHE_MAGIC_NEW) + Len(CACHE_VERSION))
        entries_offset == Len(CACHE_MAGIC_NEW) + Len(CACHE_VERSION) + 2 * SizeOfU32
                            + SizeOfU32 * 6
        cache_entries ==
            [k \in 1..number_of_entries |->
                [key |-> ReadU32(file, entries_offset + SizeOfCacheEntry * (k - 1) + 4),
                 value |-> ReadU32(file, entries_offset + SizeOfCacheEntry * (k - 1) + 8)]]
    IN [stage |-> "loaded",
        entries_offset |-> entries_offset,
        number_of_entries |-> number_of_entries,
        string_table_offset |-> entries_offset + SizeOfCacheEntry * number_of_entries,
        cache |-> InsertEntries(<<>>, file, cache_entries)]

\* LibraryCache::load on a file that was opened and mapped, lines 88-127.  A
\* magic or version that differs is reported and the file is read all the same.
LibraryCacheLoad(file) ==
    LET after_magic == Len(CACHE_MAGIC_NEW)
        after_version == after_magic + Len(CACHE_VERSION)
        number_of_entries == ReadU32(file, after_version)
        at_size == after_version + SizeOfU32
        entries_offset == at_size + SizeOfU32 * 6
        cache_entries ==
            [k \in 1..number_of_entries |->
                [key |-> ReadU32(file, entries_offset + SizeOfCacheEntry * (k - 1) + 4),
                 value |-> ReadU32(file, entries_offset + SizeOfCacheEntry * (k - 1) + 8)]]
    IN [stage |-> "loaded",
        entries_offset |-> entries_offset,
        number_of_entries |-> number_of_entries,
        string_table_offset |-> entries_offset + SizeOfCacheEntry * number_of_entries,
        cache |-> InsertEntries(<<>>, file, cache_entries)]

\* LibraryCache::find.
find(cache, key) == IF key \in DOMAIN cache THEN Some(cache[key]) ELSE None

\* One call of LibraryCache::load.
CacheLoad ==
    /\ call.op = "cache"
    /\ returned = NoCall
    /\ returned' = LibraryCacheLoad(call.file)
    /\ UNCHANGED call

\* One call of find on the cache that was loaded.
CacheFind ==
    /\ call.op = "cache"
    /\ returned # NoCall
    /\ returned.stage = "loaded"
    /\ returned' = [stage |-> "found", cache |-> returned.cache,
                    entries_offset |-> returned.entries_offset,
                    number_of_entries |-> returned.number_of_entries,
                    string_table_offset |-> returned.string_table_offset,
                    found |-> find(returned.cache, call.name)]
    /\ UNCHANGED call

(***************************************************************************)
(* ELF constants.                                                          *)
(***************************************************************************)
PROGRAM_HEADER_TYPE_LOADABLE == 1
PROGRAM_HEADER_TYPE_DYNAMIC == 2
PROGRAM_FLAG_EXECUTE == 1
PROGRAM_FLAG_WRITE == 2
PROGRAM_FLAG_READ == 4
ELF64_SECTION_HEADER_NO_BITS == 8
SECTION_FLAG_WRITE == 1
SYMBOL_BINDING_LOCAL == 0
SYMBOL_BINDING_GLOBAL == 1
SYMBOL_BINDING_WEAK == 2
SYMBOL_TYPE_OBJECT == 1
SYMBOL_TYPE_FUNCTION == 2
SYMBOL_TYPE_GNU_IFUNC == 10
SHN_UNDEF == 0
RELOCATION_X86_64_NONE == 0
RELOCATION_X86_64_64 == 1
RELOCATION_X86_64_PC32 == 2
RELOCATION_X86_64_COPY == 5
RELOCATION_X86_64_GLOB_DAT == 6
RELOCATION_X86_64_JUMP_SLOT == 7
RELOCATION_X86_64_RELATIVE == 8
RELOCATION_X86_64_IRELATIV == 37
PROT_READ == 1
PROT_WRITE == 2
PROT_EXEC == 4

\* sysconf(_SC_PAGESIZE)
PageSize == 4096

\* Elf64Loader::new: the first base address, 0x20000.
InitialBase == 131072

\* Symbol predicates of Elf64ResolvedSymbolTableEntry.
global(symbol) == symbol.binding = SYMBOL_BINDING_GLOBAL
weak(symbol) == symbol.binding = SYMBOL_BINDING_WEAK
undefined(symbol) == symbol.section_index = SHN_UNDEF /\ symbol.value = 0
indirect_function(symbol) == symbol.symbol_type = SYMBOL_TYPE_GNU_IFUNC

\* Flag predicates of Elf64ProgramHeader and Elf64SectionHeader.
HasFlag(flags, bit) == (flags \div bit) % 2 = 1
execute(h) == HasFlag(h.p_flags, PROGRAM_FLAG_EXECUTE)
write(h) == HasFlag(h.p_flags, PROGRAM_FLAG_WRITE)
read(h) == HasFlag(h.p_flags, PROGRAM_FLAG_READ)
writable(section) == HasFlag(section.sh_flags, SECTION_FLAG_WRITE)

(***************************************************************************)
(* Pure functions of the loader: loader.rs.                                *)
(***************************************************************************)
\* align_address; the caller never passes alignment 0 here (see MapSegment).
align_address(address, alignment) ==
    LET modulo == address % alignment
    IN IF modulo > 0 THEN address - modulo ELSE address

round_page_size(value) ==
    IF value % PageSize = 0 THEN value
    ELSE PageSize * ((value \div PageSize) + 1)

\* value / divisor and value % divisor for a u64 value and a divisor below 2^12.
DivMod64(value, divisor) ==
    LET c4 == value[4]
        c3 == (c4 % divisor) * Limb + value[3]
        c2 == (c3 % divisor) * Limb + value[2]
        c1 == (c2 % divisor) * Limb + value[1]
    IN [quotient |-> <<c1 \div divisor, c2 \div divisor, c3 \div divisor, c4 \div divisor>>,
        remainder |-> c1 % divisor]

\* factor * value for a u64 value and a factor up to 2^12: the low 64 bits,
\* and whether the product needs more.
Mul64(factor, value) ==
    LET p1 == factor * value[1]
        p2 == factor * value[2] + (p1 \div Limb)
        p3 == factor * value[3] + (p2 \div Limb)
        p4 == factor * value[4] + (p3 \div Limb)
    IN [low |-> <<p1 % Limb, p2 % Limb, p3 % Limb, p4 % Limb>>,
        overflows |-> p4 \div Limb # 0]

\* A rounding that gives up the page a multiple already fills.
round_page_size_u64_next(value, checked) ==
    [panics |-> FALSE,
     value |-> Mul64(PageSize, Add64(DivMod64(value, PageSize).quotient, W64(1))).low]

\* round_page_size on the whole range of u64.  The product overflows in the
\* last page of the range: a build with overflow checks panics there, a
\* build without them keeps the low 64 bits.
round_page_size_u64(value, checked) ==
    IF DivMod64(value, PageSize).remainder = 0
    THEN [panics |-> FALSE, value |-> value]
    ELSE LET x == DivMod64(value, PageSize).quotient
             product == Mul64(PageSize, Add64(x, W64(1)))
         IN [panics |-> checked /\ product.overflows, value |-> product.low]

\* One call of round_page_size.
RoundPageSize ==
    /\ call.op = "round_page_size"
    /\ returned = NoCall
    /\ returned' = round_page_size_u64(call.value, call.checked)
    /\ UNCHANGED call

map_protection(h) ==
    (IF execute(h) THEN PROT_EXEC ELSE 0)
    + (IF write(h) THEN PROT_WRITE ELSE 0)
    + (IF read(h) THEN PROT_READ ELSE 0)

\* load_program_header, lines 465-470: the program headers that are mapped.
Qualifies(h) ==
    /\ h.p_virtual_address # 0
    /\ h.p_file_size > 0
    /\ h.p_type = PROGRAM_HEADER_TYPE_LOADABLE

program_info(image) == SelectSeq(image.program_headers, Qualifies)

\* An update_global_symbols whose inserts replace the binding a name has.
IngestSymbol_replacing(tables, symbol, base) ==
    IF (global(symbol) \/ weak(symbol)) /\ ~undefined(symbol)
    THEN LET rebased == [symbol EXCEPT !.value = @ + base]
             name == SplitFirst(symbol.symbol_name, <<"@", "@">>)
             others(t, key) == [n \in (DOMAIN t) \ {key} |-> t[n]]
         IN [global_symbols |->
                others(tables.global_symbols, rebased.symbol_name)
                    @@ (rebased.symbol_name :> rebased),
             default_global_symbols |->
                IF Contains(symbol.symbol_name, <<"@", "@">>)
                THEN others(tables.default_global_symbols, name) @@ (name :> rebased)
                ELSE tables.default_global_symbols]
    ELSE tables

\* One iteration of update_global_symbols over `symbol`; tables is the pair
\* [global_symbols, default_global_symbols].
IngestSymbol(tables, symbol, base) ==
    IF (global(symbol) \/ weak(symbol)) /\ ~undefined(symbol)
    THEN LET rebased == [symbol EXCEPT !.value = @ + base]
             g == IF rebased.symbol_name \in DOMAIN tables.global_symbols
                  THEN tables.global_symbols
                  ELSE tables.global_symbols @@ (rebased.symbol_name :> rebased)
             name == SplitFirst(symbol.symbol_name, <<"@", "@">>)
             d == IF /\ Contains(symbol.symbol_name, <<"@", "@">>)
                     /\ name \notin DOMAIN tables.default_global_symbols
                  THEN tables.default_global_symbols @@ (name :> rebased)
                  ELSE tables.default_global_symbols
         IN [global_symbols |-> g, default_global_symbols |-> d]
    ELSE tables

\* A load that has not ingested the image's symbols when it relocates.
update_global_symbols_late(tables, symbols, base) == tables

RECURSIVE update_global_symbols(_, _, _)
update_global_symbols(tables, symbols, base) ==
    IF symbols = <<>> THEN tables
    ELSE update_global_symbols(IngestSymbol(tables, Head(symbols), base),
                               Tail(symbols), base)

\* A lookup that knows the literal name only.
get_symbol_literal_only(g, d, rela) ==
    IF rela.symbol_name \in DOMAIN g THEN Some(g[rela.symbol_name]) ELSE None

\* A lookup that binds a name nobody has defined yet to address 0, the way an
\* unresolved weak reference is bound.
get_symbol_binding_unknown(g, d, rela) ==
    IF rela.symbol_name \in DOMAIN g THEN Some(g[rela.symbol_name])
    ELSE LET name == TrimNul(SplitFirst(rela.symbol_name, <<"@">>))
         IN IF name \in DOMAIN d THEN Some(d[name])
            ELSE Some([symbol_name |-> rela.symbol_name,
                       binding |-> SYMBOL_BINDING_WEAK,
                       symbol_type |-> SYMBOL_TYPE_OBJECT, section_index |-> 0,
                       value |-> 0, size |-> 0])

get_symbol(g, d, rela) ==
    IF rela.symbol_name \in DOMAIN g THEN Some(g[rela.symbol_name])
    ELSE LET name == TrimNul(SplitFirst(rela.symbol_name, <<"@">>))
         IN IF name \in DOMAIN d THEN Some(d[name]) ELSE None

\* load_relocation_entries: a raw Elf64_Rela entry resolved against the
\* dynamic symbol table (0-based index sym).
ResolveRelocation(raw, dynamic_symbol_table) ==
    [symbol_name |-> IF raw.sym + 1 \in DOMAIN dynamic_symbol_table
                     THEN dynamic_symbol_table[raw.sym + 1].symbol_name
                     ELSE <<>>,
     symbol_index |-> raw.sym,
     relocation_type |-> raw.type,
     offset |-> raw.r_offset,
     addend |-> AddendI32(raw.r_addend),
     r_addend |-> raw.r_addend]

(***************************************************************************)
(* The loader: loader.rs, Elf64Loader.                                      *)
(***************************************************************************)
\* The addresses of _rtld_global_ro and __tunable_get_val in the host process.
HostRtldGlobalRo == 458752 * PageSize
HostTunableGetVal == HostRtldGlobalRo + PageSize

\* The most files one run goes through.
MaxFiles == 2

DYNAMIC_LOADER_SO == "ld-linux-x86-64.so.2"

init_linker_symbols ==
    (<<"_rtld_global_ro">> :>
        [symbol_name |-> <<"_rtld_global_ro">>, binding |-> SYMBOL_BINDING_GLOBAL,
         symbol_type |-> SYMBOL_TYPE_OBJECT, section_index |-> 0,
         value |-> HostRtldGlobalRo, size |-> 1])
    @@
    (<<"__tunable_get_val">> :>
        [symbol_name |-> <<"__tunable_get_val">>, binding |-> SYMBOL_BINDING_GLOBAL,
         symbol_type |-> SYMBOL_TYPE_FUNCTION, section_index |-> 0,
         value |-> HostTunableGetVal, size |-> 1])

NoImage == [file_path |-> <<>>]

\* ProgramStack: DEFAULT_STACK_SIZE, and the addresses mmap may choose.
DEFAULT_STACK_SIZE == 1024 * 1000 * 10
StackAddresses == {262144 * PageSize, 327680 * PageSize}
NoStack == [address |-> 0, size |-> 0, mapped |-> FALSE]

\* ProgramStack::allocate when mmap succeeds.
allocate(address, size) == [address |-> address, size |-> size, mapped |-> TRUE]

\* Drop for ProgramStack: munmap unless the address is null.
DropStack(s) == IF s.address # 0 THEN [s EXCEPT !.mapped = FALSE] ELSE s

\* Elf64Loader::new, and a process in which nothing has been loaded or run.
LoaderNew ==
    /\ base_address = InitialBase
    /\ entry = 0
    /\ mapped_memory = <<>>
    /\ global_symbols = init_linker_symbols
    /\ default_global_symbols = init_linker_symbols
    /\ init_functions = <<>>
    /\ lpc = "idle"
    /\ cur = NoImage
    /\ offset = 0
    /\ last_address = 0
    /\ todo_ph = <<>>
    /\ todo_rel = <<>>
    /\ fd = {}
    /\ mem = <<>>
    /\ munmaps = <<>>
    /\ xpc = "none"
    /\ args = [entry |-> 0, init_functions |-> <<>>, last_stack_address |-> 0]
    /\ stack = NoStack
    /\ children = 0
    /\ invoked = <<>>
    /\ loaded = <<>>
    /\ last_reloc = [applied |-> FALSE]

LoaderIdle == LoaderNew /\ pool = "none"

\* The protection of the page at address a: MAP_FIXED replaces what was
\* mapped there, so the handle pushed last decides.  0: nothing is mapped.
Covering(a) ==
    {i \in DOMAIN mapped_memory :
        mapped_memory[i].pointer <= a
        /\ a < mapped_memory[i].pointer + mapped_memory[i].length}

ProtAt(a) ==
    IF Covering(a) = {} THEN 0
    ELSE mapped_memory[CHOOSE i \in Covering(a) : \A j \in Covering(a) : j <= i].prot

\* The pages that the n bytes from address a lie in.
PagesOf(a, n) ==
    {PageSize * k : k \in (a \div PageSize)..((a + n - 1) \div PageSize)}

CanWrite(a, n) == \A pg \in PagesOf(a, n) : HasFlag(ProtAt(pg), PROT_WRITE)
CanRead(a, n) == \A pg \in PagesOf(a, n) : HasFlag(ProtAt(pg), PROT_READ)

\* The word a mapped file holds at address a where the loader wrote nothing:
\* the model does not know it; the fourth limb sets it apart from written words.
Unwritten(a) == <<a % Limb, (a \div Limb) % Limb, 0, Limb>>

ReadWord(a) == IF a \in DOMAIN mem THEN mem[a] ELSE Unwritten(a)

\* *destination_pointer = value
WriteWord(m, a, value) == [x \in (DOMAIN m) \cup {a} |-> IF x = a THEN value ELSE m[x]]

\* The addresses of an image at base b that the model follows word by word.
Tracked(image, b) ==
    {b + image.relocations[i].offset : i \in DOMAIN image.relocations}
    \cup {b + image.dynamic.init_array + 8 * k :
            k \in 0..((image.dynamic.init_array_size \div 8) - 1)}

\* load, line 557: where the loop over `files` ends.  In a whole run the files
\* are the list resolve_in_loading_order returned; otherwise they are any
\* MaxFiles files of the pool.
FileLimit == IF pool = "run" THEN Len(result) ELSE MaxFiles

\* A load that passes over files without program headers only.
IsLoaded_any_path(image) == image.program_headers # <<>>

\* load, lines 558-559: the files that are loaded at all.
IsLoaded(image) ==
    /\ ~Contains(image.file_path, <<DYNAMIC_LOADER_SO>>)
    /\ image.program_headers # <<>>

\* load, lines 557-568, for a file that is passed over.
SkipFile(image) ==
    /\ lpc = "idle"
    /\ xpc = "none"
    /\ Len(loaded) < FileLimit
    /\ ~IsLoaded(image)
    /\ loaded' = Append(loaded, [image |-> image, base |-> base_address,
                                 segs |-> <<>>, skipped |-> TRUE])
    /\ UNCHANGED <<base_address, entry, mapped_memory, global_symbols,
                   default_global_symbols, init_functions, lpc, cur, offset,
                   last_address, todo_ph, todo_rel, fd, mem, munmaps, xpc, args,
                   invoked, pool,
                   stack, children, last_reloc>>

\* load_program_header, lines 463-473: open the file, take the base, ingest
\* the image's dynamic symbols.
LoadBegin(image) ==
    /\ lpc = "idle"
    /\ xpc = "none"
    /\ Len(loaded) < FileLimit
    /\ IsLoaded(image)
    /\ cur' = image
    /\ fd' = fd \cup {image.file_path}
    /\ offset' = base_address
    /\ last_address' = 0
    /\ todo_ph' = program_info(image)
    /\ todo_rel' = image.relocations
    /\ LET tables == update_global_symbols(
                        [global_symbols |-> global_symbols,
                         default_global_symbols |-> default_global_symbols],
                        image.dynamic_symbol_table, base_address)
       IN /\ global_symbols' = tables.global_symbols
          /\ default_global_symbols' = tables.default_global_symbols
    /\ loaded' = Append(loaded, [image |-> image, base |-> base_address,
                                 segs |-> <<>>, skipped |-> FALSE])
    /\ last_reloc' = [applied |-> FALSE]
    /\ lpc' = "map"
    /\ UNCHANGED <<base_address, entry, mapped_memory, init_functions, mem,
                   munmaps, xpc, args, invoked, pool,
                   stack, children>>

\* The locals of one iteration of the loop over program_info, lines 475-483.
Segment(info, base) ==
    LET aligned_address == align_address(info.p_virtual_address + base, info.p_align)
        diff == info.p_virtual_address + base - aligned_address
    IN [aligned_address |-> aligned_address,
        diff |-> diff,
        end |-> aligned_address + info.p_memory_size,
        memory_size |-> round_page_size(info.p_memory_size + diff),
        file_offset |-> info.p_offset - diff,
        protection |-> map_protection(info)]

\* What mmap(MAP_FIXED | MAP_PRIVATE, fd) needs to succeed: a page-aligned
\* address and file offset, and a length that is not 0.  Address 0 is mapped
\* like any other where vm.mmap_min_addr or CAP_SYS_RAWIO allows it.
MmapCanSucceed(seg) ==
    /\ seg.memory_size > 0
    /\ seg.aligned_address % PageSize = 0
    /\ seg.file_offset >= 0
    /\ seg.file_offset % PageSize = 0

\* One iteration of the loop over program_info whose mmap succeeds.
MapSegment ==
    /\ lpc = "map"
    /\ todo_ph # <<>>
    /\ Head(todo_ph).p_align # 0
    /\ LET info == Head(todo_ph)
           seg == Segment(info, offset)
       IN /\ MmapCanSucceed(seg)
          /\ last_address' = IF seg.end > last_address THEN seg.end ELSE last_address
          /\ mapped_memory' = Append(mapped_memory,
                 [pointer |-> seg.aligned_address, length |-> seg.memory_size,
                  prot |-> seg.protection])
          /\ loaded' = [loaded EXCEPT ![Len(loaded)].segs =
                 Append(@, [virtual |-> info.p_virtual_address + offset,
                            memory_size |-> info.p_memory_size,
                            aligned |-> seg.aligned_address,
                            length |-> seg.memory_size])]
    /\ todo_ph' = Tail(todo_ph)
    /\ UNCHANGED <<base_address, entry, global_symbols, default_global_symbols,
                   init_functions, lpc, cur, offset, todo_rel, fd, mem, munmaps,
                   xpc, args, invoked, pool,
                   stack, children, last_reloc>>

\* One iteration of the loop over program_info that panics: p_align is 0
\* (a remainder by zero), or mmap returns MAP_FAILED and unwrap panics.
MapSegmentPanics ==
    /\ lpc = "map"
    /\ todo_ph # <<>>
    /\ lpc' = "panicked"
    /\ UNCHANGED <<base_address, entry, mapped_memory, global_symbols,
                   default_global_symbols, init_functions, cur, offset,
                   last_address, todo_ph, todo_rel, fd, mem, munmaps, xpc, args,
                   invoked, pool,
                   stack, children, loaded, last_reloc>>

\* zero_bss_section, line 539: the sections that are zeroed.
IsBss(h) == writable(h) /\ h.sh_type = ELF64_SECTION_HEADER_NO_BITS /\ h.sh_size > 0

bss_sections(image) == SelectSeq(image.section_headers, IsBss)

InBss(image, base, a) ==
    \E i \in DOMAIN bss_sections(image) :
        LET section == bss_sections(image)[i]
        IN /\ section.sh_virtual_address + base <= a
           /\ a < section.sh_virtual_address + base + section.sh_size

BssIsWritable(image, base) ==
    \A i \in DOMAIN bss_sections(image) :
        CanWrite(bss_sections(image)[i].sh_virtual_address + base,
                 bss_sections(image)[i].sh_size)

Zero == W64(0)

\* zero_bss_section: every memset lands in writable memory.
ZeroBss ==
    /\ lpc = "map"
    /\ todo_ph = <<>>
    /\ BssIsWritable(cur, offset)
    /\ mem' = [a \in (DOMAIN mem) \cup {t \in Tracked(cur, offset) : InBss(cur, offset, t)} |->
                 IF InBss(cur, offset, a) THEN Zero ELSE mem[a]]
    /\ lpc' = "relocate"
    /\ UNCHANGED <<base_address, entry, mapped_memory, global_symbols,
                   default_global_symbols, init_functions, cur, offset,
                   last_address, todo_ph, todo_rel, fd, munmaps, xpc, args,
                   invoked, pool,
                   stack, children, loaded, last_reloc>>

\* zero_bss_section: a memset reaches memory that is not mapped writable.
ZeroBssFaults ==
    /\ lpc = "map"
    /\ todo_ph = <<>>
    /\ ~BssIsWritable(cur, offset)
    /\ lpc' = "fault"
    /\ UNCHANGED <<base_address, entry, mapped_memory, global_symbols,
                   default_global_symbols, init_functions, cur, offset,
                   last_address, todo_ph, todo_rel, fd, mem, munmaps, xpc, args,
                   invoked, pool,
                   stack, children, loaded, last_reloc>>

\* The words a call memcpy(destination, source, size) copies.
CopyWrites(destination, source, size) ==
    [k \in 1..(size \div 8) |->
        [address |-> destination + 8 * (k - 1),
         value |-> ReadWord(source + 8 * (k - 1))]]

\* A relocate that stores symbol + addend into a JUMP_SLOT or GLOB_DAT slot.
RelocationWrites_with_addend(rela, base, resolved) ==
    LET symbol == get_symbol(global_symbols, default_global_symbols, rela)
    IN IF /\ rela.relocation_type \in {RELOCATION_X86_64_JUMP_SLOT, RELOCATION_X86_64_GLOB_DAT}
          /\ symbol.found
       THEN <<[address |-> rela.offset + base,
               value |-> Add64(W64(symbol.value.value), SignExtend32(rela.addend))]>>
       ELSE <<>>

\* A relocate that clears the slot of a relocation it cannot apply.
RelocationWrites_clearing(rela, base, resolved) ==
    LET symbol == get_symbol(global_symbols, default_global_symbols, rela)
    IN IF symbol.found /\ rela.relocation_type # RELOCATION_X86_64_NONE
       THEN <<[address |-> rela.offset + base, value |-> W64(symbol.value.value)]>>
       ELSE <<[address |-> rela.offset + base, value |-> W64(0)]>>

\* One iteration of the loop of relocate: the words it stores, in order.
\* resolved is what the resolver of an indirect function returns.
RelocationWrites(rela, base, resolved) ==
    LET symbol == get_symbol(global_symbols, default_global_symbols, rela)
        address == rela.offset + base
    IN IF rela.relocation_type \in {RELOCATION_X86_64_JUMP_SLOT, RELOCATION_X86_64_GLOB_DAT}
       THEN IF symbol.found
            THEN <<[address |-> address,
                    value |-> IF indirect_function(symbol.value) THEN resolved
                              ELSE W64(symbol.value.value)]>>
            ELSE <<>>
       ELSE IF rela.relocation_type = RELOCATION_X86_64_64
       THEN IF symbol.found
            THEN <<[address |-> address,
                    value |-> Add64(W64(symbol.value.value), SignExtend32(rela.addend))]>>
            ELSE <<>>
       ELSE IF rela.relocation_type \in {RELOCATION_X86_64_RELATIVE, RELOCATION_X86_64_IRELATIV}
       THEN <<[address |-> address,
               value |-> Add64(W64(base), SignExtend32(rela.addend))]>>
       ELSE IF rela.relocation_type = RELOCATION_X86_64_COPY
       THEN IF symbol.found
            THEN CopyWrites(address, symbol.value.value, symbol.value.size)
            ELSE <<>>
       ELSE <<>>

RECURSIVE ApplyWrites(_, _)
ApplyWrites(m, writes) ==
    IF writes = <<>> THEN m
    ELSE ApplyWrites(WriteWord(m, Head(writes).address, Head(writes).value), Tail(writes))

WritesLand(writes) == \A i \in DOMAIN writes : CanWrite(writes[i].address, 8)

\* The host's own pages, where its symbols live, are mapped.
InHost(a) == a >= HostRtldGlobalRo

\* What one iteration reads and calls before it stores: the resolver of an
\* indirect function is called, the source of a COPY is read.
AccessesLand(rela) ==
    LET symbol == get_symbol(global_symbols, default_global_symbols, rela)
    IN IF ~symbol.found THEN TRUE
       ELSE IF rela.relocation_type \in {RELOCATION_X86_64_JUMP_SLOT, RELOCATION_X86_64_GLOB_DAT}
       THEN indirect_function(symbol.value) =>
               \/ InHost(symbol.value.value)
               \/ HasFlag(ProtAt(align_address(symbol.value.value, PageSize)), PROT_EXEC)
       ELSE IF rela.relocation_type = RELOCATION_X86_64_COPY
       THEN symbol.value.size > 0 =>
               \/ InHost(symbol.value.value)
               \/ CanRead(symbol.value.value, symbol.value.size)
       ELSE TRUE

\* The addresses the resolver of an indirect function may return.
ResolverResults == {W64(HostTunableGetVal), W64(InitialBase + 4096)}

\* One iteration of the loop of relocate.
Relocate(resolved) ==
    /\ lpc = "relocate"
    /\ todo_rel # <<>>
    /\ LET writes == RelocationWrites(Head(todo_rel), offset, resolved)
       IN /\ AccessesLand(Head(todo_rel))
          /\ WritesLand(writes)
          /\ mem' = ApplyWrites(mem, writes)
          /\ last_reloc' = [applied |-> TRUE, rela |-> Head(todo_rel),
                            base |-> offset, writes |-> writes,
                            symbol |-> get_symbol(global_symbols,
                                                  default_global_symbols,
                                                  Head(todo_rel)),
                            before |-> mem]
    /\ todo_rel' = Tail(todo_rel)
    /\ UNCHANGED <<base_address, entry, mapped_memory, global_symbols,
                   default_global_symbols, init_functions, lpc, cur, offset,
                   last_address, todo_ph, fd, munmaps, xpc, args, invoked, pool,
                   stack, children,
                   loaded>>

\* One iteration of the loop of relocate that stores to memory that is not
\* mapped writable: the process is killed.
RelocateFaults ==
    /\ lpc = "relocate"
    /\ todo_rel # <<>>
    /\ IF AccessesLand(Head(todo_rel))
       THEN \E resolved \in ResolverResults :
               ~WritesLand(RelocationWrites(Head(todo_rel), offset, resolved))
       ELSE TRUE
    /\ lpc' = "fault"
    /\ UNCHANGED <<base_address, entry, mapped_memory, global_symbols,
                   default_global_symbols, init_functions, cur, offset,
                   last_address, todo_ph, todo_rel, fd, mem, munmaps, xpc, args,
                   invoked, pool,
                   stack, children, loaded, last_reloc>>

\* A load_program_header that calls zero_bss_section after relocate.
LoadFinish_zeroing_bss ==
    /\ lpc = "relocate"
    /\ todo_rel = <<>>
    /\ mem' = [a \in DOMAIN mem |-> IF InBss(cur, offset, a) THEN Zero ELSE mem[a]]
    /\ entry' = cur.e_entry + offset
    /\ base_address' = round_page_size(last_address + 1)
    /\ fd' = fd \ {cur.file_path}
    /\ lpc' = "init"
    /\ UNCHANGED <<mapped_memory, global_symbols, default_global_symbols,
                   init_functions, cur, offset, last_address, todo_ph, todo_rel,
                   munmaps, xpc, args, invoked, pool, stack, children,
                   loaded, last_reloc>>

\* A load_program_header that returns without closing the descriptor.
LoadFinish_leaving_open ==
    /\ lpc = "relocate"
    /\ todo_rel = <<>>
    /\ entry' = cur.e_entry + offset
    /\ base_address' = round_page_size(last_address + 1)
    /\ lpc' = "init"
    /\ UNCHANGED <<mapped_memory, global_symbols, default_global_symbols,
                   init_functions, cur, offset, last_address, todo_ph, todo_rel,
                   fd, mem, munmaps, xpc, args, invoked, pool, stack, children,
                   loaded, last_reloc>>

\* A load_program_header that sets entry for the first image only.
LoadFinish_first_entry ==
    /\ lpc = "relocate"
    /\ todo_rel = <<>>
    /\ entry' = IF entry = 0 THEN cur.e_entry + offset ELSE entry
    /\ base_address' = round_page_size(last_address + 1)
    /\ fd' = fd \ {cur.file_path}
    /\ lpc' = "init"
    /\ UNCHANGED <<mapped_memory, global_symbols, default_global_symbols,
                   init_functions, cur, offset, last_address, todo_ph, todo_rel,
                   mem, munmaps, xpc, args, invoked, pool, stack, children,
                   loaded, last_reloc>>

\* load_program_header, lines 501-505.
LoadFinish ==
    /\ lpc = "relocate"
    /\ todo_rel = <<>>
    /\ entry' = cur.e_entry + offset
    /\ base_address' = round_page_size(last_address + 1)
    /\ fd' = fd \ {cur.file_path}
    /\ lpc' = "init"
    /\ UNCHANGED <<mapped_memory, global_symbols, default_global_symbols,
                   init_functions, cur, offset, last_address, todo_ph, todo_rel,
                   mem, munmaps, xpc, args, invoked, pool, stack, children,
                   loaded, last_reloc>>

\* append_init_functions with the init array pushed before DT_INIT.
append_init_functions_array_first(init_array, dynamic, base, file) ==
    LET with_array ==
            IF dynamic.init_array > 0 /\ dynamic.init_array_size > 0
            THEN init_array \o
                 [k \in 1..(dynamic.init_array_size \div 8) |->
                     [address |-> ReadWord(dynamic.init_array + base + 8 * (k - 1)),
                      file |-> file, slot |-> k]]
            ELSE init_array
    IN IF dynamic.init_function > 0
       THEN Append(with_array, [address |-> W64(dynamic.init_function + base),
                                file |-> file, slot |-> 0])
       ELSE with_array

\* append_init_functions.  An element is the address pushed; `file` and `slot`
\* record where it came from: slot 0 is DT_INIT, slot k the k-th array entry.
append_init_functions(init_array, dynamic, base, file) ==
    LET with_init ==
            IF dynamic.init_function > 0
            THEN Append(init_array, [address |-> W64(dynamic.init_function + base),
                                     file |-> file, slot |-> 0])
            ELSE init_array
    IN IF dynamic.init_array > 0 /\ dynamic.init_array_size > 0
       THEN with_init \o
            [k \in 1..(dynamic.init_array_size \div 8) |->
                [address |-> ReadWord(dynamic.init_array + base + 8 * (k - 1)),
                 file |-> file, slot |-> k]]
       ELSE with_init

InitArrayIsReadable(dynamic, base) ==
    (dynamic.init_array > 0 /\ dynamic.init_array_size >= 8) =>
        CanRead(dynamic.init_array + base, dynamic.init_array_size)

\* load, lines 562-566: the initializers of the file just loaded.
AppendInit ==
    /\ lpc = "init"
    /\ InitArrayIsReadable(cur.dynamic, offset)
    /\ init_functions' = append_init_functions(init_functions, cur.dynamic, offset,
                                               Len(loaded))
    /\ lpc' = "idle"
    /\ cur' = NoImage
    /\ UNCHANGED <<base_address, entry, mapped_memory, global_symbols,
                   default_global_symbols, offset, last_address, todo_ph,
                   todo_rel, fd, mem, munmaps, xpc, args, invoked, pool,
                   stack, children, loaded,
                   last_reloc>>

\* append_init_functions reads an init array that is not mapped.
AppendInitFaults ==
    /\ lpc = "init"
    /\ ~InitArrayIsReadable(cur.dynamic, offset)
    /\ lpc' = "fault"
    /\ UNCHANGED <<base_address, entry, mapped_memory, global_symbols,
                   default_global_symbols, init_functions, cur, offset,
                   last_address, todo_ph, todo_rel, fd, mem, munmaps, xpc, args,
                   invoked, pool,
                   stack, children, loaded, last_reloc>>

(***************************************************************************)
(* Execution: Elf64Loader::execute, handle, run_init_functions.             *)
(***************************************************************************)
\* execute, lines 586-602: the stack is allocated and the child is cloned.
ExecuteStart ==
    /\ lpc = "idle"
    /\ xpc = "none"
    /\ \E address \in StackAddresses :
          /\ stack' = allocate(address, DEFAULT_STACK_SIZE)
          /\ args' = [entry |-> entry, init_functions |-> init_functions,
                      last_stack_address |-> address]
    /\ children' = children + 1
    /\ xpc' = "child"
    /\ UNCHANGED <<base_address, entry, mapped_memory, global_symbols,
                   default_global_symbols, init_functions, lpc, cur, offset,
                   last_address, todo_ph, todo_rel, fd, mem, munmaps, invoked,
                   pool, loaded, last_reloc>>

\* execute, line 586: the stack cannot be allocated and unwrap panics.
ExecutePanics ==
    /\ lpc = "idle"
    /\ xpc = "none"
    /\ xpc' = "panicked"
    /\ UNCHANGED <<base_address, entry, mapped_memory, global_symbols,
                   default_global_symbols, init_functions, lpc, cur, offset,
                   last_address, todo_ph, todo_rel, fd, mem, munmaps, args,
                   invoked, pool, stack, children, loaded, last_reloc>>

\* execute when clone fails: pid is -1, there is no child, waitpid(-1) fails
\* at once, execute prints and returns, and the stack is dropped.
ExecuteWithoutChild ==
    /\ lpc = "idle"
    /\ xpc = "none"
    /\ \E address \in StackAddresses :
          /\ stack' = DropStack(allocate(address, DEFAULT_STACK_SIZE))
          /\ args' = [entry |-> entry, init_functions |-> init_functions,
                      last_stack_address |-> address]
    /\ xpc' = "done"
    /\ UNCHANGED <<base_address, entry, mapped_memory, global_symbols,
                   default_global_symbols, init_functions, lpc, cur, offset,
                   last_address, todo_ph, todo_rel, fd, mem, munmaps, invoked,
                   pool, children, loaded, last_reloc>>

\* A child that calls the entry point before the initializers have run.
ChildEntry_at_once ==
    /\ xpc = "child"
    /\ xpc' = "entered"
    /\ UNCHANGED <<base_address, entry, mapped_memory, global_symbols,
                   default_global_symbols, init_functions, lpc, cur, offset,
                   last_address, todo_ph, todo_rel, fd, mem, munmaps, args,
                   invoked, pool, stack, children, loaded, last_reloc>>

\* run_init_functions: one iteration of its loop, in the child.
ChildInit ==
    /\ xpc = "child"
    /\ Len(invoked) < Len(args.init_functions)
    /\ invoked' = Append(invoked, args.init_functions[Len(invoked) + 1])
    /\ UNCHANGED <<base_address, entry, mapped_memory, global_symbols,
                   default_global_symbols, init_functions, lpc, cur, offset,
                   last_address, todo_ph, todo_rel, fd, mem, munmaps, xpc, args,
                   pool, stack, children, loaded, last_reloc>>

\* handle, lines 245-247: the child calls the entry point.
ChildEntry ==
    /\ xpc = "child"
    /\ Len(invoked) = Len(args.init_functions)
    /\ xpc' = "entered"
    /\ UNCHANGED <<base_address, entry, mapped_memory, global_symbols,
                   default_global_symbols, init_functions, lpc, cur, offset,
                   last_address, todo_ph, todo_rel, fd, mem, munmaps, args,
                   invoked, pool, stack, children, loaded, last_reloc>>

\* The child exits; waitpid returns in the parent, execute prints and
\* returns, and the stack is dropped.
WaitReturns ==
    /\ xpc = "entered"
    /\ xpc' = "done"
    /\ stack' = DropStack(stack)
    /\ UNCHANGED <<base_address, entry, mapped_memory, global_symbols,
                   default_global_symbols, init_functions, lpc, cur, offset,
                   last_address, todo_ph, todo_rel, fd, mem, munmaps, args,
                   invoked, pool, children, loaded, last_reloc>>

\* Drop for MappedMemory: munmap unless the pointer is null.
Unmapped(handle) == handle.pointer # 0

\* The loader goes out of scope, at the end of main or while a panic
\* unwinds: the handles of mapped_memory are dropped in order.
DropLoader ==
    /\ lpc \in {"idle", "panicked"}
    /\ xpc \in {"none", "done", "panicked"}
    /\ munmaps' = munmaps \o
          [i \in 1..Len(SelectSeq(mapped_memory, Unmapped)) |->
              [pointer |-> SelectSeq(mapped_memory, Unmapped)[i].pointer,
               length |-> SelectSeq(mapped_memory, Unmapped)[i].length]]
    /\ mapped_memory' = <<>>
    /\ lpc' = "dropped"
    /\ UNCHANGED <<base_address, entry, global_symbols, default_global_symbols,
                   init_functions, cur, offset, last_address, todo_ph, todo_rel,
                   fd, mem, xpc, args, invoked, pool,
                   stack, children, loaded, last_reloc>>

(***************************************************************************)
(* The files.  An image is what Elf64Metadata::load makes of a file.        *)
(***************************************************************************)
\* An entry of load_symbol_table: the name keeps its terminating NUL.
Sym(chars, binding, symbol_type, section_index, value, size) ==
    [symbol_name |-> SymbolName(chars), binding |-> binding,
     symbol_type |-> symbol_type, section_index |-> section_index,
     value |-> value, size |-> size]

\* A raw Elf64_Rela entry: r_addend is the eight-byte field of the file.
Rela(sym, type, r_offset, r_addend) ==
    [sym |-> sym, type |-> type, r_offset |-> r_offset, r_addend |-> r_addend]

Header(p_type, p_flags, p_offset, p_virtual_address, p_file_size, p_memory_size, p_align) ==
    [p_type |-> p_type, p_flags |-> p_flags, p_offset |-> p_offset,
     p_virtual_address |-> p_virtual_address, p_file_size |-> p_file_size,
     p_memory_size |-> p_memory_size, p_align |-> p_align]

Dyn(init_function, init_array, init_array_size) ==
    [init_function |-> init_function, init_array |-> init_array,
     init_array_size |-> init_array_size]

Image(file_path, e_entry, program_headers, section_headers, symbols, raw, dynamic) ==
    [file_path |-> file_path, e_entry |-> e_entry,
     program_headers |-> program_headers, section_headers |-> section_headers,
     dynamic_symbol_table |-> symbols,
     relocations |-> [i \in DOMAIN raw |-> ResolveRelocation(raw[i], symbols)],
     dynamic |-> dynamic]

LibPath == <<"/lib/", "libx.so">>
LdSoPath == <<"/lib64/", DYNAMIC_LOADER_SO>>

\* ---- images that differ in their program headers ----
ReadWrite == PROGRAM_FLAG_READ + PROGRAM_FLAG_WRITE
ReadExecute == PROGRAM_FLAG_READ + PROGRAM_FLAG_EXECUTE
HugeAlign == 512 * PageSize

\* A loadable segment whose p_offset is congruent to its address modulo
\* p_align, as the ELF format requires.
Loadable(vaddr, memsz, align) ==
    Header(PROGRAM_HEADER_TYPE_LOADABLE, ReadWrite,
           IF align = HugeAlign THEN vaddr + HugeAlign ELSE vaddr,
           vaddr, 2304, memsz, align)

VariedHeaders ==
    {Loadable(v, m, a) : v \in {2048, 4096}, m \in {2304, 6144}, a \in {PageSize, HugeAlign}}

OddHeaders ==
    { Loadable(0, 2304, PageSize),                                             \* virtual address 0
      Header(PROGRAM_HEADER_TYPE_DYNAMIC, ReadWrite, 4096, 4096, 256, 256, 8), \* not loadable
      Header(PROGRAM_HEADER_TYPE_LOADABLE, ReadWrite, 4096, 4096, 0, 4096, PageSize), \* no file bytes
      Header(PROGRAM_HEADER_TYPE_LOADABLE, ReadWrite, 4096, 4096, 2304, 2304, 0),     \* p_align 0
      Header(PROGRAM_HEADER_TYPE_LOADABLE, ReadWrite, 2056, 2056, 2304, 2304, 8),     \* p_align 8
      \* a segment of an executable linked at 0x200000 with 2 MiB pages
      Header(PROGRAM_HEADER_TYPE_LOADABLE, ReadWrite, 2048, HugeAlign + 2048, 2304, 2304, HugeAlign) }

SecondHeaders ==
    {Loadable(16384, 2304, PageSize), Loadable(18432, 6144, PageSize)}

LayoutHeaderLists ==
    {<<h>> : h \in VariedHeaders \cup OddHeaders}
    \cup {<<h, k>> : h \in VariedHeaders \cup {Loadable(0, 2304, PageSize)}, k \in SecondHeaders}

LayoutImages ==
    {Image(LibPath, 4096, phs, <<>>, <<>>, <<>>, Dyn(0, 0, 0)) : phs \in LayoutHeaderLists}

\* ---- images that differ in what they export, relocate and initialize ----
\* Text at 0x1000 (one page), data at 0x2000 (one page of file, two of memory).
LinkHeaders ==
    << Header(PROGRAM_HEADER_TYPE_LOADABLE, ReadExecute, 4096, 4096, 4096, 4096, PageSize),
       Header(PROGRAM_HEADER_TYPE_LOADABLE, ReadWrite, 8192, 8192, 4096, 8192, PageSize) >>

Bss(address, size) ==
    [sh_type |-> ELF64_SECTION_HEADER_NO_BITS,
     sh_flags |-> SECTION_FLAG_WRITE + 2,
     sh_virtual_address |-> address, sh_size |-> size]

LinkSections == <<Bss(12288, 256)>>

SymLists ==
    << <<Sym(<<"f">>, SYMBOL_BINDING_GLOBAL, SYMBOL_TYPE_FUNCTION, 1, 4352, 16)>>,
       <<Sym(<<"f">>, SYMBOL_BINDING_WEAK, SYMBOL_TYPE_FUNCTION, 1, 4608, 16),
         Sym(<<"g", "@", "@", "V1">>, SYMBOL_BINDING_GLOBAL, SYMBOL_TYPE_OBJECT, 2, 8704, 16)>>,
       <<Sym(<<"f">>, SYMBOL_BINDING_GLOBAL, SYMBOL_TYPE_FUNCTION, SHN_UNDEF, 0, 0),
         Sym(<<"h">>, SYMBOL_BINDING_GLOBAL, SYMBOL_TYPE_GNU_IFUNC, 1, 5120, 16)>>,
       <<Sym(<<"l">>, SYMBOL_BINDING_LOCAL, SYMBOL_TYPE_OBJECT, 2, 8960, 8),
         Sym(<<"g", "@", "V1">>, SYMBOL_BINDING_GLOBAL, SYMBOL_TYPE_OBJECT, SHN_UNDEF, 0, 0)>>,
       \* another version of g, a reference to it, and the names the host pre-seeds
       <<Sym(<<"g", "@", "@", "V2">>, SYMBOL_BINDING_GLOBAL, SYMBOL_TYPE_OBJECT, 2, 8712, 16),
         Sym(<<"g", "@", "V2">>, SYMBOL_BINDING_GLOBAL, SYMBOL_TYPE_OBJECT, SHN_UNDEF, 0, 0),
         Sym(<<"__tunable_get_val">>, SYMBOL_BINDING_GLOBAL, SYMBOL_TYPE_FUNCTION, 1, 4864, 16),
         Sym(<<"_rtld_global_ro", "@", "@", "V1">>, SYMBOL_BINDING_WEAK, SYMBOL_TYPE_OBJECT, 2, 8720, 16)>> >>

MinusEight == <<65528, 65535, 65535, 65535>>
TwoTo31 == <<0, 32768, 0, 0>>
TwoTo32 == <<0, 0, 1, 0>>

RelLists ==
    << <<Rela(0, RELOCATION_X86_64_RELATIVE, 8192, W64(4660)),
         Rela(0, RELOCATION_X86_64_PC32, 8200, W64(0))>>,
       <<Rela(0, RELOCATION_X86_64_GLOB_DAT, 8200, W64(0)),
         Rela(1, RELOCATION_X86_64_JUMP_SLOT, 8208, W64(8))>>,
       <<Rela(0, RELOCATION_X86_64_64, 8192, MinusEight),
         Rela(0, RELOCATION_X86_64_IRELATIV, 8200, TwoTo32)>>,
       <<Rela(1, RELOCATION_X86_64_COPY, 8216, W64(0)),
         Rela(0, RELOCATION_X86_64_RELATIVE, 8448, TwoTo31)>> >>

Dynamics == <<Dyn(4112, 8448, 16), Dyn(0, 0, 0)>>

LinkImages ==
    {Image(LibPath, 4096, LinkHeaders, LinkSections, SymLists[p[1]], RelLists[p[2]],
           Dynamics[((p[1] + p[2]) % 2) + 1]) :
        p \in {q \in (DOMAIN SymLists) \X (DOMAIN RelLists) : q[1] <= 4 \/ q[2] \in {2, 4}}}
    \cup
    \* a pointer in .bss that a relocation fills in
    {Image(LibPath, 4096, LinkHeaders, LinkSections, <<>>,
           <<Rela(0, RELOCATION_X86_64_RELATIVE, 12288, W64(4660)),
             Rela(0, RELOCATION_X86_64_NONE, 12296, W64(0))>>, Dyn(0, 0, 0))}

\* ---- images that every pool has ----
Plain ==
    Image(LibPath, 4096, LinkHeaders, LinkSections,
          <<Sym(<<"f">>, SYMBOL_BINDING_GLOBAL, SYMBOL_TYPE_FUNCTION, 1, 4352, 16)>>,
          <<Rela(0, RELOCATION_X86_64_RELATIVE, 8192, W64(4660)),
            Rela(0, RELOCATION_X86_64_NONE, 8200, W64(0))>>,
          Dyn(4112, 8448, 16))

CommonImages ==
    { Plain,
      \* the dynamic loader itself, and a file without program headers
      [Plain EXCEPT !.file_path = LdSoPath],
      [Plain EXCEPT !.program_headers = <<>>],
      \* a .bss, a relocation target and an init array outside every segment
      [Plain EXCEPT !.section_headers = <<Bss(32768, 256)>>],
      Image(LibPath, 4096, LinkHeaders, LinkSections, <<>>,
            <<Rela(0, RELOCATION_X86_64_RELATIVE, 32768, W64(4660))>>, Dyn(0, 0, 0)),
      [Plain EXCEPT !.dynamic = Dyn(0, 32768, 16)] }

\* ---- the images of a whole run: what Elf64Metadata::load makes of the file
\* at each path of the disk.  The root refers to f, which the libraries at
\* /lib/b.so and /lib/d.so define; the file at /lib/c.so has no program headers.
FileAt(path) ==
    IF path = Root
    THEN Image(<<path>>, 4096, LinkHeaders, LinkSections, SymLists[3], RelLists[2],
               Dynamics[1])
    ELSE IF path = "/lib/b.so"
    THEN Image(<<path>>, 4112, LinkHeaders, LinkSections, SymLists[1], RelLists[1],
               Dynamics[2])
    ELSE IF path = "/lib/c.so"
    THEN Image(<<path>>, 4128, <<>>, <<>>, <<>>, <<>>, Dyn(0, 0, 0))
    ELSE Image(<<path>>, 4144, LinkHeaders, LinkSections, SymLists[2], RelLists[4],
               Dynamics[1])

ImagePool ==
    IF pool = "layout" THEN LayoutImages \cup CommonImages
    ELSE IF pool = "run" THEN {FileAt(path) : path \in Paths}
    ELSE LinkImages \cup CommonImages

(***************************************************************************)
(* The specifications.                                                     *)
(***************************************************************************)
InitResolve ==
    /\ HeaderIdle
    /\ PureIdle
    /\ LoaderIdle
    /\ needed = [p \in Paths |-> <<>>]
    /\ queue = <<>>
    /\ libraries = <<>>
    /\ rpc = "link"
    /\ result = <<>>
    /\ library_cache = CachePath
    /\ ld_path_loader = NoLoader
    /\ located = [log |-> <<>>, images |-> <<>>]

ResolveStep ==
    /\ ResolveStart \/ ResolvePop \/ ResolveExhausted \/ ResolveReturn
    /\ UNCHANGED <<headerVars, loaderVars, pureVars>>

NextResolve ==
    \/ \E p \in Paths : \E library \in Libs :
          LinkNeeded(p, library) /\ UNCHANGED <<headerVars, loaderVars, pureVars>>
    \/ ResolveStart /\ UNCHANGED <<headerVars, loaderVars, pureVars>>
    \/ ResolvePop /\ UNCHANGED <<headerVars, loaderVars, pureVars>>
    \/ ResolveExhausted /\ UNCHANGED <<headerVars, loaderVars, pureVars>>
    \/ ResolveReturn /\ UNCHANGED <<headerVars, loaderVars, pureVars>>

SpecResolve == InitResolve /\ [][NextResolve]_vars

\* One image, its needed names, a library cache and a search path: what
\* resolve_direct_dependencies makes of them.
MaxListed == 3

NeededLists ==
    UNION {[1..n -> Libs \ {"a"}] : n \in 0..MaxListed}

Caches ==
    {[n \in S |-> CachePath[n]] : S \in SUBSET (Libs \ {"a"})}
    \cup {("b" :> "/lib/stale.so"), ("b" :> "/opt/lib/notes.txt") @@ ("c" :> "/lib/c.so")}

Loaders ==
    {NoLoader} \cup
    {LdPathLoaderNew(segments) :
        segments \in {<<>>, <<"/empty">>, <<"/opt/lib">>, <<"/opt/lib", "", "/usr/local/lib">>,
                      <<"/usr/local/lib", "/empty">>, <<"/gone">>, <<"/srv/lib">>}}

InitLocate ==
    /\ HeaderIdle
    /\ PureIdle
    /\ LoaderIdle
    /\ needed \in {[p \in Paths |-> IF p = Root THEN names ELSE <<>>] : names \in NeededLists}
    /\ queue = <<>>
    /\ libraries = <<>>
    /\ rpc = "locate"
    /\ result = <<>>
    /\ library_cache \in Caches
    /\ ld_path_loader \in Loaders
    /\ located = [log |-> <<>>, images |-> <<>>]

NextLocate ==
    \/ ResolveDirect /\ UNCHANGED <<headerVars, loaderVars, pureVars>>
    \/ ResolveDirectPanics /\ UNCHANGED <<headerVars, loaderVars, pureVars>>

SpecLocate == InitLocate /\ [][NextLocate]_vars

\* round_page_size on values from every part of the range of u64, in a build
\* with overflow checks and in one without.
RoundInputs ==
    {<<l1, l2, l3, l4>> :
        l1 \in {0, 1, PageSize - 1, PageSize, PageSize + 1, 2 * PageSize - 1,
                Limb - PageSize, Limb - PageSize + 1, Limb - 1},
        l2 \in {0, 1, Limb - 1}, l3 \in {0, Limb - 1}, l4 \in {0, Limb \div 2, Limb - 1}}

InitRound ==
    /\ HeaderIdle
    /\ ResolverIdle
    /\ LoaderIdle
    /\ call \in {[op |-> "round_page_size", value |-> v, checked |-> b] :
                    v \in RoundInputs, b \in BOOLEAN}
    /\ returned = NoCall

NextRound ==
    \/ RoundPageSize /\ UNCHANGED <<headerVars, resolverVars, loaderVars>>

SpecRound == InitRound /\ [][NextRound]_vars

\* String tables: every table of up to MaxTable bytes, and the table of two
\* library names.
MaxTable == 4

TwoNames ==
    <<"l", "i", "b", "c", ".", "s", "o", ".", "6", NUL,
      "l", "i", "b", "m", ".", "s", "o", ".", "6", NUL>>

StringTables ==
    UNION {[1..n -> {"f", "g", NUL}] : n \in 0..MaxTable} \cup {TwoNames}

InitStrings ==
    /\ HeaderIdle
    /\ ResolverIdle
    /\ LoaderIdle
    /\ \E table \in StringTables :
          call \in {[op |-> o, table |-> table, from |-> k] :
                        o \in {"string_length", "required_library", "symbol_name"},
                        k \in 0..(Len(table) + 1)}
    /\ returned = NoCall

NextStrings ==
    \/ Materialise /\ UNCHANGED <<headerVars, resolverVars, loaderVars>>

SpecStrings == InitStrings /\ [][NextStrings]_vars

\* Cache files as ldconfig writes them: the header of struct cache_file_new
\* (magic, version, nlibs, len_strings and five more words), nlibs entries of
\* struct file_entry_new, and the strings.  pairs are the (key, value) strings.
MaxEntries == 2

U32(n) == <<n % 256, (n \div 256) % 256, (n \div 65536) % 256, (n \div 16777216) % 256>>

Zeros(n) == [k \in 1..n |-> 0]

\* The strings of the pairs from the i-th on, each with its terminator.
RECURSIVE Strings(_, _)
Strings(pairs, i) ==
    IF i > Len(pairs) THEN <<>>
    ELSE pairs[i][1] \o <<0>> \o pairs[i][2] \o <<0>> \o Strings(pairs, i + 1)

\* The header of a file: the magic, the version, the number of entries, the
\* size of the string table and five more words.
HeaderSize == Len(CACHE_MAGIC_NEW) + Len(CACHE_VERSION) + (2 + 5) * SizeOfU32

\* The file offset of the key of the i-th pair.
KeyOffset(pairs, i) ==
    HeaderSize + SizeOfCacheEntry * Len(pairs)
        + Len(Strings(pairs, 1)) - Len(Strings(pairs, i))

RECURSIVE FileEntries(_, _)
FileEntries(pairs, i) ==
    IF i > Len(pairs) THEN <<>>
    ELSE U32(1) \o U32(KeyOffset(pairs, i))
         \o U32(KeyOffset(pairs, i) + Len(pairs[i][1]) + 1)
         \o U32(0) \o Zeros(8) \o FileEntries(pairs, i + 1)

CacheFile(magic, pairs) ==
    magic \o CACHE_VERSION \o U32(Len(pairs)) \o U32(Len(Strings(pairs, 1)))
        \o Zeros(20) \o FileEntries(pairs, 1) \o Strings(pairs, 1)

\* "libb.so", "libc.so" and "libd.so" as one byte each, and two paths.
CacheKeys == {<<98>>, <<99>>}
CacheValues == {<<47, 98>>, <<47, 99>>}
CachePairLists == UNION {[1..n -> CacheKeys \X CacheValues] : n \in 0..MaxEntries}

InitCache ==
    /\ HeaderIdle
    /\ ResolverIdle
    /\ LoaderIdle
    /\ call \in {[op |-> "cache", pairs |-> pairs, file |-> CacheFile(magic, pairs),
                   name |-> name] :
                    pairs \in CachePairLists,
                    magic \in {CACHE_MAGIC_NEW, [CACHE_MAGIC_NEW EXCEPT ![1] = 108]},
                    name \in CacheKeys \cup {<<100>>}}
    /\ returned = NoCall

NextCache ==
    \/ CacheLoad /\ UNCHANGED <<headerVars, resolverVars, loaderVars>>
    \/ CacheFind /\ UNCHANGED <<headerVars, resolverVars, loaderVars>>

SpecCache == InitCache /\ [][NextCache]_vars

\* resolve_in_loading_order is a plain loop: it keeps running while it can.
FairSpecResolve == SpecResolve /\ WF_vars(ResolveStep)

\* Loading: files are loaded one after another, then the program is executed
\* and the loader dropped.
NextLoad ==
    \/ \E image \in ImagePool :
          SkipFile(image) /\ UNCHANGED <<headerVars, resolverVars, pureVars>>
    \/ \E image \in ImagePool :
          LoadBegin(image) /\ UNCHANGED <<headerVars, resolverVars, pureVars>>
    \/ MapSegment /\ UNCHANGED <<headerVars, resolverVars, pureVars>>
    \/ MapSegmentPanics /\ UNCHANGED <<headerVars, resolverVars, pureVars>>
    \/ ZeroBss /\ UNCHANGED <<headerVars, resolverVars, pureVars>>
    \/ ZeroBssFaults /\ UNCHANGED <<headerVars, resolverVars, pureVars>>
    \/ \E resolved \in ResolverResults :
          Relocate(resolved) /\ UNCHANGED <<headerVars, resolverVars, pureVars>>
    \/ RelocateFaults /\ UNCHANGED <<headerVars, resolverVars, pureVars>>
    \/ LoadFinish /\ UNCHANGED <<headerVars, resolverVars, pureVars>>
    \/ AppendInit /\ UNCHANGED <<headerVars, resolverVars, pureVars>>
    \/ AppendInitFaults /\ UNCHANGED <<headerVars, resolverVars, pureVars>>
    \/ ExecuteStart /\ UNCHANGED <<headerVars, resolverVars, pureVars>>
    \/ ExecutePanics /\ UNCHANGED <<headerVars, resolverVars, pureVars>>
    \/ ExecuteWithoutChild /\ UNCHANGED <<headerVars, resolverVars, pureVars>>
    \/ ChildInit /\ UNCHANGED <<headerVars, resolverVars, pureVars>>
    \/ ChildEntry /\ UNCHANGED <<headerVars, resolverVars, pureVars>>
    \/ WaitReturns /\ UNCHANGED <<headerVars, resolverVars, pureVars>>
    \/ DropLoader /\ UNCHANGED <<headerVars, resolverVars, pureVars>>

\* A whole run of Elf64Loader::load: resolve_in_loading_order on the root,
\* then the loop over the files it returned.
MaxRunNeeded == 4

RunLengths ==
    {l \in [Paths -> 0..MaxRunNeeded] : SumLen([p \in Paths |-> [k \in 1..l[p] |-> k]], Paths) <= MaxRunNeeded}

\* The graphs in which the images have MaxRunNeeded DT_NEEDED entries together.
RunGraphs ==
    UNION {{("/bin/a" :> a) @@ ("/lib/b.so" :> b) @@ ("/lib/c.so" :> c) @@ ("/lib/d.so" :> d) :
               a \in [1..l["/bin/a"] -> Libs], b \in [1..l["/lib/b.so"] -> Libs],
               c \in [1..l["/lib/c.so"] -> Libs], d \in [1..l["/lib/d.so"] -> Libs]} :
           l \in RunLengths}

InitRun ==
    /\ HeaderIdle
    /\ PureIdle
    /\ LoaderNew
    /\ pool = "run"
    /\ needed \in RunGraphs
    /\ queue = <<>>
    /\ libraries = <<>>
    /\ rpc = "link"
    /\ result = <<>>
    /\ library_cache = CachePath
    /\ ld_path_loader = NoLoader
    /\ located = [log |-> <<>>, images |-> <<>>]

\* load, line 557: the file the loop reaches next.
NextInOrder == FileAt(result[Len(loaded) + 1])

NextRun ==
    \/ ResolveStart /\ UNCHANGED <<headerVars, loaderVars, pureVars>>
    \/ ResolvePop /\ UNCHANGED <<headerVars, loaderVars, pureVars>>
    \/ ResolveExhausted /\ UNCHANGED <<headerVars, loaderVars, pureVars>>
    \/ ResolveReturn /\ UNCHANGED <<headerVars, loaderVars, pureVars>>
    \/ rpc = "done" /\ Len(loaded) < Len(result)
          /\ SkipFile(NextInOrder) /\ UNCHANGED <<headerVars, resolverVars, pureVars>>
    \/ rpc = "done" /\ Len(loaded) < Len(result)
          /\ LoadBegin(NextInOrder) /\ UNCHANGED <<headerVars, resolverVars, pureVars>>
    \/ MapSegment /\ UNCHANGED <<headerVars, resolverVars, pureVars>>
    \/ MapSegmentPanics /\ UNCHANGED <<headerVars, resolverVars, pureVars>>
    \/ ZeroBss /\ UNCHANGED <<headerVars, resolverVars, pureVars>>
    \/ \E resolved \in ResolverResults :
          Relocate(resolved) /\ UNCHANGED <<headerVars, resolverVars, pureVars>>
    \/ LoadFinish /\ UNCHANGED <<headerVars, resolverVars, pureVars>>
    \/ AppendInit /\ UNCHANGED <<headerVars, resolverVars, pureVars>>

SpecRun == InitRun /\ [][NextRun]_vars

InitLayout == HeaderIdle /\ ResolverIdle /\ PureIdle /\ LoaderNew /\ pool = "layout"
SpecLayout == InitLayout /\ [][NextLoad]_vars

InitLink == HeaderIdle /\ ResolverIdle /\ PureIdle /\ LoaderNew /\ pool = "link"
SpecLink == InitLink /\ [][NextLoad]_vars

InitHeader ==
    /\ header \in Headers
    /\ check_result = "none"
    /\ ResolverIdle
    /\ LoaderIdle
    /\ PureIdle

NextHeader ==
    \/ CheckHeader /\ UNCHANGED <<resolverVars, loaderVars, pureVars>>

SpecHeader == InitHeader /\ [][NextHeader]_vars

(***************************************************************************)
(* Properties of dependency resolution.                                   *)
(***************************************************************************)
Diamond ==
    /\ needed["/bin/a"] = <<"b", "c">>
    /\ needed["/lib/b.so"] = <<"d">>
    /\ needed["/lib/c.so"] = <<"d">>
    /\ needed["/lib/d.so"] = <<>>

\* C1: for an acyclic dependency graph whose libraries are all located, the
\* returned list holds the root and every image reachable from it exactly once,
\* and every image comes after all of its own dependencies.
C1_LoadOrder ==
    (rpc = "done" /\ Acyclic) =>
        /\ Range(result) = Reachable(Root) \cup {Root}
        /\ \A p \in Range(result) : Cardinality(Positions(result, p)) = 1
        /\ \A p \in Range(result) : \A q \in Range(result) :
               DependsOn(p, q) => IndexOf(result, q) < IndexOf(result, p)

\* C1 witness: the diamond A -> {B, C}, B -> {D}, C -> {D} has been resolved.
C1_Witness ==
    /\ rpc = "done"
    /\ Diamond
    /\ result = <<"/lib/d.so", "/lib/b.so", "/lib/c.so", "/bin/a">>

\* C2: resolve_in_loading_order terminates and returns a list for every finite
\* dependency graph, cyclic ones included.
C2_Terminates == (rpc = "loop") ~> (rpc = "done")

\* Within the model's bounds an acyclic graph never exhausts the deque.
AcyclicFits == rpc = "exhausted" => ~Acyclic

(***************************************************************************)
(* Placement of consecutive images.                                         *)
(***************************************************************************)
\* The files of `loaded` that went through load_program_header.
Mapped(i) == i \in DOMAIN loaded /\ ~loaded[i].skipped

\* C3: for any two images loaded consecutively, the base set after the first
\* is page-aligned and lies strictly above every address the first occupies:
\* above the last byte of each mapped segment and at or above the end of each
\* mapping.
C3_NextBaseAboveImage ==
    \A i \in DOMAIN loaded :
        (Mapped(i) /\ Mapped(i + 1)) =>
            /\ loaded[i + 1].base % PageSize = 0
            /\ \A k \in DOMAIN loaded[i].segs :
                  /\ loaded[i + 1].base >
                        loaded[i].segs[k].virtual + loaded[i].segs[k].memory_size - 1
                  /\ loaded[i + 1].base >=
                        loaded[i].segs[k].aligned + loaded[i].segs[k].length

\* C4: in every state reachable by image loads from a new loader,
\* base_address is at least 0x20000, and so is the base of every image.
C4_BaseAtLeastInitial ==
    /\ base_address >= InitialBase
    /\ \A i \in DOMAIN loaded : Mapped(i) => loaded[i].base >= InitialBase

(***************************************************************************)
(* Symbols before relocations.                                              *)
(***************************************************************************)
Exported(symbol) == (global(symbol) \/ weak(symbol)) /\ ~undefined(symbol)

\* The definitions ingested so far, in the order update_global_symbols met them.
Definitions ==
    Flatten([i \in DOMAIN loaded |->
        IF loaded[i].skipped THEN <<>>
        ELSE LET exports == SelectSeq(loaded[i].image.dynamic_symbol_table, Exported)
             IN [k \in DOMAIN exports |->
                    [exports[k] EXCEPT !.value = @ + loaded[i].base]]])

IsDefault(definition) == Contains(definition.symbol_name, <<"@", "@">>)

DefaultDefinitions == SelectSeq(Definitions, IsDefault)

DefaultName(definition) == SplitFirst(definition.symbol_name, <<"@", "@">>)

\* A relocation of the image loaded last has been applied.
Relocating == last_reloc.applied

\* C5 as stated: no relocation of I is applied before the global symbol table
\* holds every defined GLOBAL or WEAK dynamic symbol of I and of every image
\* loaded before I, each with its own value rebased by its own image's base.
C5_EveryDefinitionBound ==
    Relocating =>
        \A n \in DOMAIN Definitions :
            /\ Definitions[n].symbol_name \in DOMAIN global_symbols
            /\ global_symbols[Definitions[n].symbol_name] = Definitions[n]

\* C5, amended: no relocation of I is applied before the global symbol tables
\* bind the name of every defined GLOBAL or WEAK dynamic symbol of I and of
\* every image loaded before I; a name is bound to the definition ingested
\* first under it (the host's where the host pre-seeded the name), rebased by
\* the base of the image that defines it.
C5_FirstDefinitionBound ==
    Relocating =>
        /\ \A n \in DOMAIN Definitions :
              LET name == Definitions[n].symbol_name
                  first == Min({m \in DOMAIN Definitions : Definitions[m].symbol_name = name})
              IN /\ name \in DOMAIN global_symbols
                 /\ global_symbols[name] =
                       IF name \in DOMAIN init_linker_symbols
                       THEN init_linker_symbols[name] ELSE Definitions[first]
        /\ \A n \in DOMAIN DefaultDefinitions :
              LET name == DefaultName(DefaultDefinitions[n])
                  first == Min({m \in DOMAIN DefaultDefinitions :
                                   DefaultName(DefaultDefinitions[m]) = name})
              IN /\ name \in DOMAIN default_global_symbols
                 /\ default_global_symbols[name] =
                       IF name \in DOMAIN init_linker_symbols
                       THEN init_linker_symbols[name] ELSE DefaultDefinitions[first]

\* Two images that define the same name are loaded and the second relocates.
C5_Witness ==
    /\ Relocating
    /\ Len(loaded) = 2 /\ Mapped(1) /\ Mapped(2)
    /\ \E n \in DOMAIN Definitions : \E m \in DOMAIN Definitions :
          /\ n < m
          /\ Definitions[n].symbol_name = Definitions[m].symbol_name
          /\ Definitions[n].value # Definitions[m].value

(***************************************************************************)
(* Initializers.                                                            *)
(***************************************************************************)
\* The initializers of the file loaded i-th: DT_INIT, then the init array.
InitsOf(i) ==
    LET dynamic == loaded[i].image.dynamic
    IN (IF dynamic.init_function > 0
        THEN <<[address |-> W64(dynamic.init_function + loaded[i].base),
                file |-> i, slot |-> 0]>>
        ELSE <<>>)
       \o
       (IF dynamic.init_array > 0 /\ dynamic.init_array_size > 0
        THEN [k \in 1..(dynamic.init_array_size \div 8) |->
                 [address |-> ReadWord(dynamic.init_array + loaded[i].base + 8 * (k - 1)),
                  file |-> i, slot |-> k]]
        ELSE <<>>)

ExpectedInits ==
    Flatten([i \in DOMAIN loaded |-> IF loaded[i].skipped THEN <<>> ELSE InitsOf(i)])

\* C6: no initializer is invoked before the relocations of every loaded image
\* are complete; initializers are invoked in load order, within an image
\* DT_INIT first and then the init array in array order, each exactly once,
\* and all of them before the entry point is called.
C6_InitOrder ==
    /\ invoked # <<>> => (lpc \in {"idle", "dropped"} /\ todo_rel = <<>>)
    /\ Len(invoked) <= Len(ExpectedInits)
    /\ invoked = SubSeq(ExpectedInits, 1, Len(invoked))
    /\ (xpc = "entered" \/ (xpc = "done" /\ children = 1)) => invoked = ExpectedInits

C6_Witness ==
    /\ xpc = "entered"
    /\ Len(loaded) = 2 /\ Mapped(1) /\ Mapped(2)
    /\ Len(invoked) = 6

(***************************************************************************)
(* Mappings.                                                                *)
(***************************************************************************)
\* Every successful segment mmap, in the order made.
Mmaps ==
    Flatten([i \in DOMAIN loaded |->
        [k \in DOMAIN loaded[i].segs |->
            [pointer |-> loaded[i].segs[k].aligned, length |-> loaded[i].segs[k].length]]])

Handles == [i \in DOMAIN mapped_memory |->
               [pointer |-> mapped_memory[i].pointer, length |-> mapped_memory[i].length]]

\* C7: every successful segment mmap is recorded as a handle; nothing is
\* unmapped while the loader is alive; when it is destroyed munmap is called
\* exactly once for every recorded handle, as many times as mmap succeeded.
C7_EveryMappingUnmapped ==
    IF lpc = "dropped"
    THEN /\ Len(munmaps) = Len(Mmaps)
         /\ \A h \in Range(Mmaps) :
               Cardinality(Positions(munmaps, h)) = Cardinality(Positions(Mmaps, h))
    ELSE /\ Handles = Mmaps
         /\ munmaps = <<>>

(***************************************************************************)
(* Header validation.                                                       *)
(***************************************************************************)
MagicIsRight(h) ==
    /\ Ident(h, 0) = ELFMAG0 /\ Ident(h, 1) = ELFMAG1
    /\ Ident(h, 2) = ELFMAG2 /\ Ident(h, 3) = ELFMAG3

\* C8: validation checks magic, then class, then machine and reports the
\* first violation; it succeeds only when all three are right.
C8_FirstViolationReported ==
    check_result # "none" =>
        /\ ~MagicIsRight(header) => check_result = "Not an ELF file"
        /\ (MagicIsRight(header) /\ Ident(header, 4) # ELFCLASS64) =>
               check_result = "ELF64 required"
        /\ (MagicIsRight(header) /\ Ident(header, 4) = ELFCLASS64
              /\ header.e_machine # EM_X86_64) => check_result = "AMD64 expected"
        /\ check_result = "ok" =>
               (MagicIsRight(header) /\ Ident(header, 4) = ELFCLASS64
                  /\ header.e_machine = EM_X86_64)

\* A header with a wrong class and a wrong machine: the class is reported.
C8_Witness ==
    /\ check_result = "ELF64 required"
    /\ MagicIsRight(header)
    /\ header.e_machine # EM_X86_64

\* C9: a header with valid magic, 64-bit class and AMD64 machine whose
\* data-encoding byte is not little-endian is rejected with the encoding error.
C9_EncodingChecked ==
    (/\ check_result # "none"
     /\ MagicIsRight(header)
     /\ Ident(header, 4) = ELFCLASS64
     /\ header.e_machine = EM_X86_64
     /\ Ident(header, 5) # ELFDATA2LSB) => check_result = "Little Endian required"

(***************************************************************************)
(* Relocation.                                                              *)
(***************************************************************************)
\* C10: a RELATIVE or IRELATIVE relocation of an image loaded at base b, with
\* target offset o and 64-bit addend a, stores b + a as a 64-bit word at o + b.
C10_RelativeStoresBasePlusAddend ==
    (/\ lpc = "relocate"
     /\ last_reloc.applied
     /\ last_reloc.rela.relocation_type \in
            {RELOCATION_X86_64_RELATIVE, RELOCATION_X86_64_IRELATIV}) =>
        /\ last_reloc.rela.offset + last_reloc.base \in DOMAIN mem
        /\ mem[last_reloc.rela.offset + last_reloc.base] =
              Add64(W64(last_reloc.base), last_reloc.rela.r_addend)

(***************************************************************************)
(* Symbol relocations.                                                      *)
(***************************************************************************)
SlotTypes == {RELOCATION_X86_64_JUMP_SLOT, RELOCATION_X86_64_GLOB_DAT}

\* The relocation applied last is a JUMP_SLOT or GLOB_DAT whose literal name
\* the global map binds to an entry that is not an indirect function.
SlotBound ==
    /\ last_reloc.applied
    /\ last_reloc.rela.relocation_type \in SlotTypes
    /\ last_reloc.rela.symbol_name \in DOMAIN global_symbols
    /\ ~indirect_function(global_symbols[last_reloc.rela.symbol_name])

\* C11: a JUMP_SLOT or GLOB_DAT relocation whose symbol name the global map
\* binds to a non-IFUNC entry of value v leaves memory as it was before the
\* relocation except for the 64-bit word at offset + base of the image being
\* relocated, which holds v; and v is the value the symbol has in an image
\* that defines it plus the base of that image.
C11_SlotHoldsSymbolValue ==
    SlotBound =>
        LET name == last_reloc.rela.symbol_name
            v == global_symbols[name].value
        IN /\ mem = WriteWord(last_reloc.before,
                              last_reloc.rela.offset + last_reloc.base, W64(v))
           /\ \E i \in DOMAIN loaded :
                 /\ ~loaded[i].skipped
                 /\ \E k \in DOMAIN loaded[i].image.dynamic_symbol_table :
                       LET symbol == loaded[i].image.dynamic_symbol_table[k]
                       IN /\ symbol.symbol_name = name
                          /\ Exported(symbol)
                          /\ v = symbol.value + loaded[i].base

\* The second image loaded stores into its slot the address of a symbol the
\* first image defines, and the relocation carries a non-zero addend.
C11_Witness ==
    /\ SlotBound
    /\ Len(loaded) = 2 /\ Mapped(1) /\ Mapped(2)
    /\ last_reloc.rela.r_addend # W64(0)
    /\ global_symbols[last_reloc.rela.symbol_name].value < last_reloc.base
    /\ last_reloc.rela.offset + last_reloc.base \in DOMAIN mem

(***************************************************************************)
(* Symbol lookup.                                                           *)
(***************************************************************************)
LookupTypes ==
    {RELOCATION_X86_64_JUMP_SLOT, RELOCATION_X86_64_GLOB_DAT,
     RELOCATION_X86_64_64, RELOCATION_X86_64_COPY}

\* A relocation that looks its symbol up has been applied.
LookedUp == last_reloc.applied /\ last_reloc.rela.relocation_type \in LookupTypes

\* The name a reference asks for without its version: the characters that
\* precede the first '@' (a name ends where its terminator stands).
Unversioned(name) ==
    LET stops == {i \in DOMAIN name : name[i] \in {"@", NUL}}
    IN IF stops = {} THEN name ELSE SubSeq(name, 1, Min(stops) - 1)

\* The lookup goes by the literal name, then by the unversioned name in the
\* default-global map, then fails.
LookupOrder ==
    LookedUp =>
        LET name == last_reloc.rela.symbol_name
        IN last_reloc.symbol =
              IF name \in DOMAIN global_symbols THEN Some(global_symbols[name])
              ELSE IF Unversioned(name) \in DOMAIN default_global_symbols
              THEN Some(default_global_symbols[Unversioned(name)])
              ELSE None

\* The reference looked up last is versioned ('n@W') and has no literal match.
VersionedMiss ==
    /\ LookedUp
    /\ Contains(last_reloc.rela.symbol_name, <<"@">>)
    /\ last_reloc.rela.symbol_name \notin DOMAIN global_symbols

\* C12 as stated: the lookup goes by the literal name, then by the name with
\* its '@...' suffix removed in the default-global map, then fails; and once
\* an image exporting a defined GLOBAL or WEAK 'n@@V' has been ingested, a
\* reference 'n@W' without a literal match resolves to that export.
C12_ResolvesToThatExport ==
    /\ LookupOrder
    /\ VersionedMiss =>
          \A n \in DOMAIN DefaultDefinitions :
              DefaultName(DefaultDefinitions[n]) = Unversioned(last_reloc.rela.symbol_name)
                  => last_reloc.symbol = Some(DefaultDefinitions[n])

\* C12, amended: the lookup goes by the literal name, then by the name with
\* its '@...' suffix removed in the default-global map, then fails; and once
\* an image exporting a defined GLOBAL or WEAK 'n@@V' has been ingested, a
\* reference 'n@W' without a literal match resolves to the entry the
\* default-global map binds n to: the host's entry where the host pre-seeded
\* n, otherwise the export 'n@@..' that was ingested first.
C12_ResolvesToFirstExport ==
    /\ LookupOrder
    /\ VersionedMiss =>
          \A n \in DOMAIN DefaultDefinitions :
              LET name == DefaultName(DefaultDefinitions[n])
                  first == Min({m \in DOMAIN DefaultDefinitions :
                                   DefaultName(DefaultDefinitions[m]) = name})
              IN name = Unversioned(last_reloc.rela.symbol_name)
                    => last_reloc.symbol =
                          Some(IF name \in DOMAIN init_linker_symbols
                               THEN init_linker_symbols[name]
                               ELSE DefaultDefinitions[first])

\* A reference 'g@V1' without a literal match has been resolved to the export
\* 'g@@V1' of the image loaded before.
C12_Witness ==
    /\ VersionedMiss
    /\ Len(loaded) = 2 /\ Mapped(1) /\ Mapped(2)
    /\ last_reloc.symbol.found
    /\ Contains(last_reloc.symbol.value.symbol_name, <<"@", "@">>)
    /\ last_reloc.symbol.value.value < last_reloc.base

(***************************************************************************)
(* Relocations that are passed over.                                        *)
(***************************************************************************)
\* The symbol of rela cannot be resolved, or relocate has no case for its type.
PassedOver(rela) ==
    \/ /\ rela.relocation_type \in LookupTypes
       /\ rela.symbol_name \notin DOMAIN global_symbols
       /\ Unversioned(rela.symbol_name) \notin DOMAIN default_global_symbols
    \/ rela.relocation_type \notin
          LookupTypes \cup {RELOCATION_X86_64_RELATIVE, RELOCATION_X86_64_IRELATIV}

\* C13: a relocation whose symbol cannot be resolved (JUMP_SLOT, GLOB_DAT, 64,
\* COPY), and a relocation of type NONE or of any type outside {64, COPY,
\* GLOB_DAT, JUMP_SLOT, RELATIVE, IRELATIVE}, leaves every memory word and
\* every field of the loader as it was, and the pass goes on to the next
\* relocation of the image.
C13_PassedOverChangesNothing ==
    [][(lpc = "relocate" /\ todo_rel # <<>> /\ PassedOver(Head(todo_rel)))
          => /\ mem' = mem
             /\ UNCHANGED <<base_address, entry, mapped_memory, global_symbols,
                            default_global_symbols, init_functions, munmaps, fd>>
             /\ UNCHANGED <<cur, offset, last_address>>
             /\ lpc' = "relocate"
             /\ todo_rel' = Tail(todo_rel)]_vars

\* A relocation with an unresolvable symbol has been passed over after an
\* earlier load wrote memory, and the image has a relocation left.
C13_Witness ==
    /\ last_reloc.applied
    /\ PassedOver(last_reloc.rela)
    /\ last_reloc.rela.relocation_type \in LookupTypes
    /\ last_reloc.writes = <<>>
    /\ mem # <<>>
    /\ lpc = "relocate" /\ todo_rel # <<>>

\* A relocation of a type relocate has no case for has been passed over.
C13_WitnessUnsupported ==
    /\ last_reloc.applied
    /\ last_reloc.rela.relocation_type \in {RELOCATION_X86_64_NONE, RELOCATION_X86_64_PC32}
    /\ last_reloc.writes = <<>>

(***************************************************************************)
(* GLOBAL and WEAK definitions of one name.                                 *)
(***************************************************************************)
\* update_global_symbols has gone over every image in `loaded`.
Ingested == lpc \in {"relocate", "init", "idle"}

\* The entries of the i-th loaded image that define `name`.
DefinedBy(i, name) ==
    {k \in DOMAIN loaded[i].image.dynamic_symbol_table :
        /\ loaded[i].image.dynamic_symbol_table[k].symbol_name = name
        /\ Exported(loaded[i].image.dynamic_symbol_table[k])}

\* C14: when the loaded images contain both a WEAK definition and a GLOBAL
\* definition of one symbol name, then after both images have been ingested
\* the global symbol map binds the name to the GLOBAL definition, whichever of
\* the two images was loaded first.
C14_GlobalBeatsWeak ==
    Ingested =>
        \A i \in DOMAIN loaded : \A j \in DOMAIN loaded :
            (i # j /\ Mapped(i) /\ Mapped(j)) =>
                \A name \in {loaded[i].image.dynamic_symbol_table[k].symbol_name :
                                k \in DOMAIN loaded[i].image.dynamic_symbol_table} :
                    ( /\ \E k \in DefinedBy(i, name) :
                            weak(loaded[i].image.dynamic_symbol_table[k])
                      /\ \E k \in DefinedBy(j, name) :
                            global(loaded[j].image.dynamic_symbol_table[k]) )
                    => /\ name \in DOMAIN global_symbols
                       /\ global(global_symbols[name])

\* The GLOBAL definition was loaded first and the WEAK one after it: the map
\* binds the GLOBAL one.
GlobalThenWeak ==
    /\ Ingested /\ Len(loaded) = 2 /\ Mapped(1) /\ Mapped(2)
    /\ \E name \in DOMAIN global_symbols :
          /\ \E k \in DefinedBy(1, name) : global(loaded[1].image.dynamic_symbol_table[k])
          /\ \E k \in DefinedBy(2, name) : weak(loaded[2].image.dynamic_symbol_table[k])
          /\ global(global_symbols[name])

(***************************************************************************)
(* Bindings are write-once.                                                 *)
(***************************************************************************)
\* Every name table binds is bound to the same entry in the next state.
Kept(table, next) ==
    \A name \in DOMAIN table : name \in DOMAIN next /\ next[name] = table[name]

\* The names the host pre-seeds are bound to the host's own addresses.
HostBound ==
    /\ DOMAIN init_linker_symbols \subseteq DOMAIN global_symbols
    /\ DOMAIN init_linker_symbols \subseteq DOMAIN default_global_symbols
    /\ \A name \in DOMAIN init_linker_symbols :
          /\ global_symbols[name] = init_linker_symbols[name]
          /\ default_global_symbols[name] = init_linker_symbols[name]

\* C15: across any sequence of loads a name bound in the global map or in the
\* default-global map keeps its entry (entries are added, never replaced or
\* removed), and _rtld_global_ro and __tunable_get_val stay bound to the
\* host's own addresses whatever the loaded images export.
C15_BindingsWriteOnce ==
    /\ []HostBound
    /\ [][/\ Kept(global_symbols, global_symbols')
          /\ Kept(default_global_symbols, default_global_symbols')]_vars

\* An image that exports __tunable_get_val and _rtld_global_ro@@V1 has been
\* ingested after another image, and the tables have grown.
C15_Witness ==
    /\ Ingested /\ Len(loaded) = 2 /\ Mapped(1) /\ Mapped(2)
    /\ DefinedBy(2, SymbolName(<<"__tunable_get_val">>)) # {}
    /\ DefinedBy(2, SymbolName(<<"_rtld_global_ro", "@", "@", "V1">>)) # {}
    /\ SymbolName(<<"_rtld_global_ro", "@", "@", "V1">>) \in DOMAIN global_symbols
    /\ default_global_symbols[<<"_rtld_global_ro">>].value = HostRtldGlobalRo
    /\ global_symbols[<<"__tunable_get_val">>].value = HostTunableGetVal

(***************************************************************************)
(* Locating the needed libraries.                                           *)
(***************************************************************************)
\* resolve_direct_dependencies has returned.
Located == rpc = "located"

\* C16: for each needed name the search-path loader is consulted only when
\* the library cache has no entry for the name; a name the cache has an entry
\* for is answered with the cache's path, its image is the one the call
\* pushes, and when the cache has every needed name the call leaves the
\* search-path loader untouched, whatever LD_LIBRARY_PATH holds.
C16_CacheBeforeSearchPath ==
    Located =>
        /\ Len(located.log) = Len(needed[Root])
        /\ \A i \in DOMAIN located.log :
              LET name == needed[Root][i]
              IN /\ located.log[i].library = name
                 /\ located.log[i].consulted => name \notin DOMAIN library_cache
                 /\ name \in DOMAIN library_cache =>
                       located.log[i].paths = <<library_cache[name]>>
        /\ Range(needed[Root]) \subseteq DOMAIN library_cache =>
              /\ located.images =
                    SelectSeq([i \in DOMAIN needed[Root] |-> library_cache[needed[Root][i]]],
                              IsElf)
              /\ ld_path_loader \in Loaders

\* A name the cache has an entry for has been answered from the cache while
\* the search path holds a file, and another name has been searched for.
C16_Witness ==
    /\ Located
    /\ ld_path_loader.present
    /\ ld_path_loader.libraries # <<>>
    /\ \E i \in DOMAIN located.log :
          /\ located.log[i].library \in DOMAIN library_cache
          /\ ~located.log[i].consulted
          /\ located.log[i].paths = <<library_cache[located.log[i].library]>>
    /\ \E i \in DOMAIN located.log : located.log[i].consulted

\* Neither the cache nor the search-path loader has a path for name: the
\* loader memoizes every name it finds a path for.
NotLocated(name) ==
    /\ name \notin DOMAIN library_cache
    /\ ld_path_loader.present => name \notin DOMAIN ld_path_loader.libraries

\* The path name was located at.
LocatedAt(name) ==
    IF name \in DOMAIN library_cache THEN <<library_cache[name]>>
    ELSE IF NotLocated(name) THEN <<>>
    ELSE <<ld_path_loader.libraries[name]>>

\* The needed names of the root without the ones that were not located.
Listed == SelectSeq(needed[Root], LAMBDA name : ~NotLocated(name))

\* The search-path loader as LdPathLoader::new left it.
Fresh(loader) == IF loader.present THEN [loader EXCEPT !.libraries = <<>>] ELSE loader

Leq64(x, y) ==
    \/ x[4] < y[4]
    \/ x[4] = y[4] /\ x[3] < y[3]
    \/ x[4] = y[4] /\ x[3] = y[3] /\ x[2] < y[2]
    \/ x[4] = y[4] /\ x[3] = y[3] /\ x[2] = y[2] /\ x[1] <= y[1]

PageMultiple(x) == x[1] % PageSize = 0

\* round_page_size has returned.
Rounded == call.op = "round_page_size" /\ returned # NoCall

\* What the claim says of the value r returned for v.
RoundsUp(v, r) ==
    /\ PageMultiple(r)
    /\ Leq64(v, r)
    /\ \E k \in 0..(PageSize - 1) : Add64(v, W64(k)) = r
    /\ PageMultiple(v) => r = v
    /\ ~PageMultiple(v) => r # v

\* C18: round_page_size(v) returns v when v is a multiple of the page size and
\* otherwise the smallest page multiple greater than v: for every v the
\* result is a page multiple, is at least v, exceeds v by less than a page,
\* and rounding it again returns it.
C18_RoundsUpToPage ==
    Rounded =>
        /\ ~returned.panics
        /\ RoundsUp(call.value, returned.value)
        /\ round_page_size_u64(returned.value, call.checked) = returned

\* v is not in the last page of the range of u64.
BelowLastPage(v) ==
    v[4] < Limb - 1 \/ v[3] < Limb - 1 \/ v[2] < Limb - 1 \/ v[1] <= Limb - PageSize

\* What holds of round_page_size: the same, for the values whose next page
\* multiple is a u64.
RoundsUpBelowLastPage ==
    (Rounded /\ BelowLastPage(call.value)) =>
        /\ ~returned.panics
        /\ RoundsUp(call.value, returned.value)
        /\ round_page_size_u64(returned.value, call.checked) = returned

\* On the addresses of the loader's images the two renderings of
\* round_page_size agree.
RoundAgrees ==
    (Rounded /\ call.value[3] = 0 /\ call.value[4] = 0 /\ call.value[2] < Limb \div 4) =>
        returned.value = W64(round_page_size(call.value[1] + Limb * call.value[2]))

\* A value that is not a page multiple has been rounded up to the next one.
RoundedUp ==
    /\ Rounded
    /\ ~PageMultiple(call.value)
    /\ BelowLastPage(call.value)
    /\ returned.value # call.value

(***************************************************************************)
(* Names from string tables.                                                *)
(***************************************************************************)
\* The call on the string table has returned without a panic.
Materialised ==
    /\ call.op \in {"string_length", "required_library", "symbol_name"}
    /\ returned # NoCall
    /\ ~returned.panics

\* The index, counted from 0, of the first zero byte at or after call.from.
Terminator ==
    CHOOSE z \in call.from..(Len(call.table) - 1) :
        /\ call.table[z + 1] = NUL
        /\ \A i \in call.from..(z - 1) : call.table[i + 1] # NUL

\* C19: string_length returns the index of the first zero byte plus one, and
\* every name materialised from a string table at offset k, a needed-library
\* name and a symbol name alike, is the bytes from k up to but not including
\* that terminator; in "libc.so.6\0libm.so.6\0" the length at 0 is 10 and the
\* string at 10 is "libm.so.6".
C19_NamesEndBeforeTerminator ==
    Materialised =>
        /\ call.op = "string_length" =>
              /\ returned.value = Terminator - call.from + 1
              /\ (call.table = TwoNames /\ call.from = 0) => returned.value = 10
        /\ call.op \in {"required_library", "symbol_name"} =>
              /\ returned.value =
                    [i \in 1..(Terminator - call.from) |-> call.table[call.from + i]]
              /\ (call.table = TwoNames /\ call.from = 10) =>
                    returned.value = <<"l", "i", "b", "m", ".", "s", "o", ".", "6">>

\* What holds: string_length counts the terminator, a needed-library name
\* ends before it, and a symbol name ends with it.
NamesAsMaterialised ==
    Materialised =>
        LET name == [i \in 1..(Terminator - call.from) |-> call.table[call.from + i]]
        IN /\ call.op = "string_length" => returned.value = Terminator - call.from + 1
           /\ call.op = "required_library" => returned.value = name
           /\ call.op = "symbol_name" => returned.value = SymbolName(name)

\* The second name of the table of two library names has been materialised
\* as a needed library.
SecondNameRead ==
    /\ Materialised
    /\ call.op = "required_library" /\ call.table = TwoNames /\ call.from = 10
    /\ returned.value = <<"l", "i", "b", "m", ".", "s", "o", ".", "6">>

(***************************************************************************)
(* Execution in a child.                                                    *)
(***************************************************************************)
\* clone has returned in the parent and waitpid has not.
ChildRuns == xpc \in {"child", "entered"}

\* s is the beginning of t.
IsPrefix(s, t) == Len(s) <= Len(t) /\ s = SubSeq(t, 1, Len(s))

\* What holds in every state of an execution in a child.
OneChildOnItsStack ==
    /\ children <= 1
    /\ ChildRuns =>
          /\ children = 1
          /\ stack.mapped
          /\ args.last_stack_address = stack.address
    /\ xpc = "child" => IsPrefix(invoked, args.init_functions)
    /\ xpc = "entered" => invoked = args.init_functions
    /\ (xpc = "done" /\ children = 1) => invoked = args.init_functions

\* What the parent leaves alone while the child runs.
ParentWaits ==
    ChildRuns =>
        UNCHANGED <<base_address, entry, mapped_memory, global_symbols,
                    default_global_symbols, init_functions, lpc, cur, offset,
                    last_address, todo_ph, todo_rel, fd, mem, munmaps, loaded,
                    last_reloc, children, args>>

\* C20: a call of execute creates at most one child, which shares the address
\* space; the child runs every initializer and then the entry; between clone
\* and the return of waitpid the parent performs no loader action; and the
\* stack handed to the child is not unmapped before waitpid has returned.
C20_ParentWaitsForOneChild ==
    /\ []OneChildOnItsStack
    /\ [][ParentWaits]_vars
    /\ [][(xpc = "child" /\ xpc' = "entered") => invoked = args.init_functions]_vars
    /\ [][(stack.mapped /\ ~stack'.mapped) => (xpc # "child" /\ xpc' = "done")]_vars

\* The child has run two initializers and the entry, waitpid has returned and
\* the stack has been unmapped.
C20_Witness ==
    /\ xpc = "done"
    /\ children = 1
    /\ Len(invoked) >= 2
    /\ invoked = args.init_functions
    /\ stack.address # 0 /\ ~stack.mapped

(***************************************************************************)
(* The entry address after a whole run.                                     *)
(***************************************************************************)
\* load has returned: the resolver's list has been gone through.
LoadReturned ==
    /\ pool = "run"
    /\ rpc = "done"
    /\ Len(loaded) = Len(result)
    /\ lpc = "idle"

\* C21: after load(root) has completed for a root that is itself loaded, the
\* root is the file loaded last and entry is the root's e_entry plus the base
\* address the root was mapped at, whatever the dependency graph.
C21_EntryIsRootEntry ==
    (LoadReturned /\ IsLoaded(FileAt(Root))) =>
        /\ result[Len(result)] = Root
        /\ loaded[Len(loaded)].image = FileAt(Root)
        /\ ~loaded[Len(loaded)].skipped
        /\ entry = FileAt(Root).e_entry + loaded[Len(loaded)].base

\* C21 witness: the diamond has been loaded, two libraries and then the root.
C21_Witness ==
    /\ LoadReturned
    /\ Diamond
    /\ Len(loaded) = 4
    /\ Cardinality({i \in DOMAIN loaded : ~loaded[i].skipped}) = 3
    /\ entry = 4096 + loaded[4].base
    /\ loaded[4].base > loaded[1].base

(***************************************************************************)
(* The dynamic loader's own file.                                           *)
(***************************************************************************)
IsLinker(image) == Contains(image.file_path, <<DYNAMIC_LOADER_SO>>)

\* The loop of load goes on to a file whose path names the dynamic loader.
ReachesLinker ==
    /\ Len(loaded') = Len(loaded) + 1
    /\ IsLinker(loaded'[Len(loaded')].image)

\* The files before the i-th are all the dynamic loader's.
OnlyLinkerBefore(i) == \A j \in 1..(i - 1) : IsLinker(loaded[j].image)

\* C22: the step of the load phase for a file whose path contains
\* ld-linux-x86-64.so.2 opens and maps nothing, writes no memory, adds no
\* symbol and no initializer and leaves base_address and entry as they were;
\* a file that follows such files only is loaded as the first file would be.
C22_LinkerPassedOver ==
    /\ [][ReachesLinker =>
            /\ loaded'[Len(loaded')].skipped
            /\ UNCHANGED <<base_address, entry, mapped_memory, global_symbols,
                           default_global_symbols, init_functions, lpc, cur,
                           offset, last_address, todo_ph, todo_rel, fd, mem,
                           munmaps>>]_vars
    /\ [](\A i \in DOMAIN loaded :
            (OnlyLinkerBefore(i) /\ ~loaded[i].skipped) => loaded[i].base = InitialBase)

\* C22 witness: the dynamic loader's file was passed over and the file after
\* it has been loaded at the initial base.
C22_Witness ==
    /\ Len(loaded) = 2
    /\ IsLinker(loaded[1].image) /\ loaded[1].skipped
    /\ loaded[1].image.program_headers # <<>>
    /\ Mapped(2) /\ loaded[2].base = InitialBase
    /\ lpc = "idle"
    /\ entry = loaded[2].image.e_entry + InitialBase
    /\ init_functions # <<>>

(***************************************************************************)
(* Indices that point outside a table.                                      *)
(***************************************************************************)
\* The table has no zero byte at or after call.from (call.from may lie
\* outside the table).
NoTerminator ==
    \A z \in call.from..(Len(call.table) - 1) : call.table[z + 1] # NUL

\* C23: a symbol whose st_name lies outside its string table, or whose string
\* has no terminator inside the table, gets the empty name, and a relocation
\* whose symbol index lies outside the dynamic symbol table gets the empty
\* name; neither aborts the parse.
C23_OutOfRangeNamesAreEmpty ==
    /\ (call.op = "symbol_name" /\ returned # NoCall) =>
          /\ ~returned.panics
          /\ NoTerminator => returned.value = <<>>
    /\ call.op = "symbol_name" =>
          LET table == <<[symbol_name |-> call.table]>>
              rela == ResolveRelocation(Rela(call.from, RELOCATION_X86_64_64, 0, W64(0)), table)
          IN call.from >= Len(table) => rela.symbol_name = <<>>

\* What holds: the relocation's name is empty, and the symbol's name cannot be
\* read: the slice or string_length indexes past the end of the table.
OutOfRangeNamePanics ==
    /\ (call.op = "symbol_name" /\ returned # NoCall /\ NoTerminator) => returned.panics
    /\ call.op = "symbol_name" =>
          LET table == <<[symbol_name |-> call.table]>>
              rela == ResolveRelocation(Rela(call.from, RELOCATION_X86_64_64, 0, W64(0)), table)
          IN call.from >= Len(table) => rela.symbol_name = <<>>

(***************************************************************************)
(* The segments that are mapped.                                            *)
(***************************************************************************)
\* The program headers the claim names: LOADABLE, with an address and with
\* bytes in the file.
Wanted(image) ==
    SelectSeq(image.program_headers,
              LAMBDA h : /\ h.p_type = PROGRAM_HEADER_TYPE_LOADABLE
                         /\ h.p_virtual_address # 0
                         /\ h.p_file_size # 0)

\* The loop over the program headers of the i-th file has ended.
MappingEnded(i) ==
    /\ Mapped(i)
    /\ i < Len(loaded) \/ lpc \in {"relocate", "init", "idle", "fault"}

\* One mmap for each wanted header, in program-header order, and each mapping
\* contains its segment.
MappedInOrder ==
    \A i \in DOMAIN loaded : Mapped(i) =>
        LET wanted == Wanted(loaded[i].image)
            segs == loaded[i].segs
        IN /\ Len(segs) <= Len(wanted)
           /\ MappingEnded(i) => Len(segs) = Len(wanted)
           /\ \A k \in DOMAIN segs :
                 /\ segs[k].virtual = wanted[k].p_virtual_address + loaded[i].base
                 /\ segs[k].memory_size = wanted[k].p_memory_size
                 /\ segs[k].aligned <= segs[k].virtual
                 /\ segs[k].virtual + segs[k].memory_size
                        <= segs[k].aligned + segs[k].length

\* The header the loop of load_program_header is at.
AtHeader == lpc = "map" /\ todo_ph # <<>> /\ Head(todo_ph).p_align > 0

\* C24: exactly the LOADABLE program headers with a nonzero address and a
\* nonzero file size are mapped, one mmap each in program-header order; each
\* mapping contains its whole segment, and its file offset p_offset - diff
\* does not underflow, so file byte p_offset lies at virtual + base.
C24_SegmentsMappedWhole ==
    /\ MappedInOrder
    /\ AtHeader =>
          /\ Head(todo_ph).p_offset >= Segment(Head(todo_ph), offset).diff
          /\ Segment(Head(todo_ph), offset).file_offset
                 + Segment(Head(todo_ph), offset).diff = Head(todo_ph).p_offset

\* Two wanted segments of one file have been mapped.
TwoSegmentsMapped ==
    /\ Len(loaded) = 1 /\ MappingEnded(1)
    /\ Len(loaded[1].image.program_headers) = 2
    /\ Len(loaded[1].segs) = 2

(***************************************************************************)
(* Zeroing .bss.                                                            *)
(***************************************************************************)
\* Address a lies in a NOBITS section of the image at base that is writable
\* and not empty.
InZeroedRange(image, base, a) ==
    \E i \in DOMAIN image.section_headers :
        LET section == image.section_headers[i]
        IN /\ section.sh_type = ELF64_SECTION_HEADER_NO_BITS
           /\ HasFlag(section.sh_flags, SECTION_FLAG_WRITE)
           /\ section.sh_size # 0
           /\ section.sh_virtual_address + base <= a
           /\ a < section.sh_virtual_address + base + section.sh_size

\* The step of zero_bss_section, and a step of the loop of relocate.
ZeroesBss == lpc = "map" /\ lpc' = "relocate"
RelocatesOne == lpc = "relocate" /\ lpc' = "relocate" /\ todo_rel' = Tail(todo_rel)

\* C25: within the load of one image .bss is zeroed after all its segments
\* are mapped and before any of its relocations is applied; exactly the
\* ranges of the NOBITS sections that are writable and not empty are zeroed;
\* memory changes in no other step but those of relocate, so the zeroing never
\* overwrites what a relocation of the image stored.
C25_BssZeroedBeforeRelocation ==
    /\ [][ZeroesBss =>
            /\ todo_ph = <<>>
            /\ Len(loaded[Len(loaded)].segs) = Len(program_info(cur))
            /\ ~last_reloc.applied
            /\ todo_rel = cur.relocations
            /\ \A a \in DOMAIN mem' :
                  IF InZeroedRange(cur, offset, a) THEN mem'[a] = Zero
                  ELSE a \in DOMAIN mem /\ mem'[a] = mem[a]
            /\ \A a \in Tracked(cur, offset) :
                  InZeroedRange(cur, offset, a) => a \in DOMAIN mem']_vars
    /\ [][mem' # mem => ZeroesBss \/ RelocatesOne]_vars
    /\ []((last_reloc.applied /\ lpc \in {"relocate", "init"}) =>
            \A i \in DOMAIN last_reloc.writes :
                mem[last_reloc.writes[i].address] = last_reloc.writes[i].value)

\* C25 witness: a pointer in .bss was zeroed and then filled in by a
\* relocation, and the word after it is still zero.
C25_Witness ==
    /\ lpc = "idle" /\ Len(loaded) = 1 /\ Mapped(1)
    /\ InZeroedRange(loaded[1].image, InitialBase, InitialBase + 12288)
    /\ InitialBase + 12288 \in DOMAIN mem
    /\ mem[InitialBase + 12288] = W64(InitialBase + 4660)
    /\ mem[InitialBase + 12296] = Zero

(***************************************************************************)
(* Object descriptors.                                                      *)
(***************************************************************************)
\* A step that opens a descriptor, one that closes one, one that makes an mmap.
Opens == \E f \in fd' : f \notin fd
Closes == \E f \in fd : f \notin fd'
Mmaps1 == Len(mapped_memory') = Len(mapped_memory) + 1

\* C26: for every image loaded one descriptor is opened, when its load begins;
\* the segment mmaps of the image are made while it is the open descriptor; it
\* is closed once, when load_program_header returns and before the next image
\* is begun; at most one descriptor is open at any time, and none when load
\* is between files or has returned.
C26_OneDescriptorPerImage ==
    /\ [][/\ Opens => (lpc = "idle" /\ lpc' = "map" /\ fd = {} /\ fd' = {cur'.file_path}
                       /\ Len(loaded') = Len(loaded) + 1)
          /\ Closes => (lpc = "relocate" /\ lpc' = "init" /\ fd' = {})
          /\ Mmaps1 => (fd = {cur.file_path} /\ fd' = fd /\ lpc = "map")
          /\ (Len(loaded') = Len(loaded) + 1 /\ ~loaded'[Len(loaded')].skipped) => Opens]_vars
    /\ [](/\ Cardinality(fd) <= 1
          /\ lpc \in {"map", "relocate"} => fd = {cur.file_path}
          /\ lpc \in {"idle", "init"} => fd = {})

\* C26 witness: the second image is being mapped through its own descriptor
\* after the first image's descriptor was closed.
C26_Witness ==
    /\ Len(loaded) = 2 /\ Mapped(1) /\ Mapped(2)
    /\ lpc = "map"
    /\ Len(loaded[2].segs) = 1
    /\ fd = {cur.file_path}

(***************************************************************************)
(* The search-path loader.                                                  *)
(***************************************************************************)
\* The name of the file at a path: its last component.
FileName(path) ==
    IF path = "/opt/lib/libb.so" THEN "libb.so"
    ELSE IF path = "/opt/lib/notes.txt" THEN "notes.txt"
    ELSE IF path = "/usr/local/lib/libc.so" THEN "libc.so"
    ELSE IF path = "/srv/lib/b" THEN "b"
    ELSE IF path = "/srv/lib/c" THEN "c"
    ELSE path

\* The files called `name` in the directories the loader lists.
FilesNamed(loader, name) ==
    {file \in Range(Flatten([i \in DOMAIN loader.paths |-> Directories[loader.paths[i]]])) :
        FileName(file) = name}

\* The entries of the log for which LdPathLoader::get was called.
Gets == {i \in DOMAIN located.log : located.log[i].consulted}

\* C27: get(name) returns a path only if a listed directory holds a file
\* called name, and then that file's path; when no directory holds such a file
\* it returns nothing and memoizes nothing; a repeated get(name) returns what
\* the first returned.
C27_GetFindsFileByName ==
    Located =>
        /\ \A i \in Gets :
              LET name == located.log[i].library
                  files == FilesNamed(ld_path_loader, name)
              IN /\ located.log[i].paths # <<>> => located.log[i].paths[1] \in files
                 /\ files = {} =>
                       /\ located.log[i].paths = <<>>
                       /\ name \notin DOMAIN ld_path_loader.libraries
        /\ \A i \in Gets : \A j \in Gets :
              located.log[i].library = located.log[j].library =>
                  located.log[i].paths = located.log[j].paths

\* What holds: get answers every name with the entry read last from the
\* directories, whatever the entry is called, and memoizes it under the name.
GetAnswersLastEntry ==
    Located =>
        \A i \in Gets :
            LET name == located.log[i].library
                files == Flatten([k \in DOMAIN ld_path_loader.paths |->
                                     Directories[ld_path_loader.paths[k]]])
            IN IF files = <<>>
               THEN located.log[i].paths = <<>> /\ name \notin DOMAIN ld_path_loader.libraries
               ELSE /\ located.log[i].paths = <<files[Len(files)]>>
                    /\ ld_path_loader.libraries[name] = files[Len(files)]

\* get("b") was called on a directory that holds files b and c.
GetOfB ==
    /\ Located
    /\ \E i \in Gets : located.log[i].library = "b" /\ located.log[i].paths = <<"/srv/lib/c">>

(***************************************************************************)
(* The library cache.                                                       *)
(***************************************************************************)
\* The value of the pair written last with key name, if any pair has it.
LastValue(pairs, name) ==
    LET with == {i \in DOMAIN pairs : pairs[i][1] = name}
    IN IF with = {} THEN None
       ELSE Some(pairs[CHOOSE i \in with : \A j \in with : j <= i][2])

CacheLoaded == call.op = "cache" /\ returned # NoCall

\* C28 as stated: the entry table is read at the offset after the 17-byte
\* magic, the 3-byte version, the two 32-bit counts and 24 reserved bytes;
\* count entries of 24 bytes are read, each inserts (string at key_offset ->
\* string at value_offset), and find returns the value of an entry whose key
\* is the name, or nothing.
C28_EntriesAfter24Reserved ==
    CacheLoaded =>
        /\ returned.entries_offset = 17 + 3 + 4 + 4 + 24
        /\ returned.number_of_entries = Len(call.pairs)
        /\ returned.string_table_offset = returned.entries_offset + 24 * Len(call.pairs)
        /\ DOMAIN returned.cache = {call.pairs[i][1] : i \in DOMAIN call.pairs}
        /\ \A key \in DOMAIN returned.cache :
              \E i \in DOMAIN call.pairs :
                  call.pairs[i][1] = key /\ call.pairs[i][2] = returned.cache[key]
        /\ returned.stage = "found" =>
              IF returned.found.found
              THEN \E i \in DOMAIN call.pairs :
                      call.pairs[i][1] = call.name /\ call.pairs[i][2] = returned.found.value
              ELSE \A i \in DOMAIN call.pairs : call.pairs[i][1] # call.name

\* C28 as the code has it: the entry table is at offset 48, after the magic,
\* the version, the two 32-bit counts and 20 more bytes; otherwise as stated,
\* and of several entries with one key the last one's value is found.
C28_EntriesAtOffset48 ==
    CacheLoaded =>
        /\ returned.entries_offset = 17 + 3 + 4 + 4 + 20
        /\ returned.number_of_entries = Len(call.pairs)
        /\ returned.string_table_offset = returned.entries_offset + 24 * Len(call.pairs)
        /\ DOMAIN returned.cache = {call.pairs[i][1] : i \in DOMAIN call.pairs}
        /\ \A key \in DOMAIN returned.cache :
              Some(returned.cache[key]) = LastValue(call.pairs, key)
        /\ returned.stage = "found" => returned.found = LastValue(call.pairs, call.name)

\* C28 witness: a file of two entries was loaded, a key was found and
\* another name was not.
C28_Witness ==
    /\ CacheLoaded
    /\ returned.stage = "found"
    /\ call.pairs = <<<<(<<98>>), (<<47, 98>>)>>, <<(<<99>>), (<<47, 99>>)>>>>
    /\ call.name = <<99>>
    /\ returned.found = Some(<<47, 99>>)
    /\ returned.entries_offset = 48

(***************************************************************************)
(* Where an image's mappings start.                                         *)
(***************************************************************************)
\* The pages of the mappings made for the i-th file.
PagesMappedFor(i) ==
    UNION {PagesOf(loaded[i].segs[k].aligned, loaded[i].segs[k].length) :
             k \in DOMAIN loaded[i].segs}

\* C29: every range mapped for an image starts at or above the base address
\* the image's load began with, whatever p_align is, and no mapping of an
\* image covers a page mapped for an image loaded before it.
C29_MappedAtOrAboveBase ==
    /\ \A i \in DOMAIN loaded : \A k \in DOMAIN loaded[i].segs :
          loaded[i].segs[k].aligned >= loaded[i].base
    /\ \A i \in DOMAIN loaded : \A j \in DOMAIN loaded :
          i < j => PagesMappedFor(i) \cap PagesMappedFor(j) = {}

\* What holds: a segment whose p_align is the page size is mapped at or above
\* the base.
PageAlignedAboveBase ==
    \A i \in DOMAIN loaded : Mapped(i) =>
        \A k \in DOMAIN loaded[i].segs :
            Wanted(loaded[i].image)[k].p_align = PageSize =>
                loaded[i].segs[k].aligned >= loaded[i].base

\* A segment aligned to 2 MiB has been mapped below the base.
MappedBelowBase ==
    \E i \in DOMAIN loaded : \E k \in DOMAIN loaded[i].segs :
        /\ loaded[i].segs[k].aligned < loaded[i].base
        /\ Wanted(loaded[i].image)[k].p_align = HugeAlign

(***************************************************************************)
(* Definitions that arrive after the reference.                             *)
(***************************************************************************)
\* The entries of the i-th loaded image that define a symbol.
DefinedByAny(i) ==
    {k \in DOMAIN loaded[i].image.dynamic_symbol_table :
        Exported(loaded[i].image.dynamic_symbol_table[k])}

\* The definitions of the images loaded no later than the i-th file.
ExportsUpTo(i) ==
    UNION {{loaded[j].image.dynamic_symbol_table[k] : k \in DefinedByAny(j)} :
             j \in {j \in 1..i : Mapped(j)}}

\* The name can be found once the first i files have been gone through: it
\* is pre-seeded by the host, or defined under that literal name, or its
\* unversioned name has a default definition ('n@@V').
KnownUpTo(i, name) ==
    \/ name \in DOMAIN init_linker_symbols
    \/ Unversioned(name) \in DOMAIN init_linker_symbols
    \/ \E s \in ExportsUpTo(i) :
          \/ s.symbol_name = name
          \/ /\ Contains(s.symbol_name, <<"@", "@">>)
             /\ SplitFirst(s.symbol_name, <<"@", "@">>) = Unversioned(name)

\* relocate has gone past the k-th relocation of the i-th file.
GonePast(i, k) ==
    /\ Mapped(i)
    /\ \/ i < Len(loaded)
       \/ lpc \in {"init", "idle"}
       \/ /\ lpc = "relocate"
          /\ k <= Len(loaded[i].image.relocations) - Len(todo_rel)

\* The relocations of the i-th file that look a symbol up and whose symbol no
\* image loaded up to the i-th defines.
LateBound(i) ==
    {k \in DOMAIN loaded[i].image.relocations :
        /\ loaded[i].image.relocations[k].relocation_type \in LookupTypes
        /\ ~KnownUpTo(i, loaded[i].image.relocations[k].symbol_name)}

\* C30: a relocation of image I that looks a symbol up is resolved against
\* the host's pre-seeded symbols and the symbols of the images loaded no later
\* than I only; when only a later image defines the symbol, the site in I is
\* not stored to when I is relocated and is never stored to afterwards, not
\* even once the defining image has been loaded.
C30_LateDefinitionsNeverPatch ==
    /\ (LookedUp /\ last_reloc.symbol.found) =>
          \/ last_reloc.symbol.value \in Range(init_linker_symbols)
          \/ \E j \in DOMAIN loaded :
                /\ Mapped(j) /\ loaded[j].base <= last_reloc.base
                /\ \E k \in DefinedByAny(j) :
                      last_reloc.symbol.value =
                         [loaded[j].image.dynamic_symbol_table[k]
                            EXCEPT !.value = @ + loaded[j].base]
    /\ \A i \in DOMAIN loaded : \A k \in DOMAIN loaded[i].image.relocations :
          (GonePast(i, k) /\ k \in LateBound(i)) =>
              (loaded[i].base + loaded[i].image.relocations[k].offset)
                  \notin DOMAIN mem

\* The first image refers to a symbol that only the second defines; both have
\* been loaded and the site in the first has not been stored to.
C30_Witness ==
    /\ Len(loaded) = 2 /\ Mapped(1) /\ Mapped(2) /\ lpc = "idle"
    /\ mem # <<>>
    /\ \E k \in LateBound(1) :
          /\ KnownUpTo(2, loaded[1].image.relocations[k].symbol_name)
          /\ (loaded[1].base + loaded[1].image.relocations[k].offset)
                \notin DOMAIN mem

====
